---------------------------- MODULE Spec2Model ----------------------------
(***************************************************************************)
(* GoPiper: the bounded-concurrency ProcessQueue (queue.go) and the        *)
(* parallel synthesis orchestrator generateAudioParallel (audio.go, kept   *)
(* in src/README.md from line 489 on).                                     *)
(*                                                                         *)
(* Granularity.  Every critical section of pq.mu is one atomic step.  A    *)
(* `go pq.processQueue()` statement that directly follows a critical       *)
(* section is folded into that step: it only makes one more processQueue   *)
(* goroutine exist (pqGoroutines + 1), and a goroutine that exists but has *)
(* not run yet cannot be told from one that is created a moment later.     *)
(* The send on item.Result is folded into the step that runs item.Task():  *)
(* the channel is fresh and has a buffer of one, so the send never blocks. *)
(***************************************************************************)
EXTENDS Integers, Sequences, FiniteSets, TLC

\* ------------------------------------------------------------- bounds
\* Largest number of sentences handed to one generateAudioParallel call.
MaxSentences == 2
\* Number of SetMaxConcurrent calls (POST /settings) in one behaviour.
MaxSetCalls == 1
\* Longest generated text handed to normalizeTextForTTS, in runes.
MaxTextLen == 3
\* mergeShortFragments is applied to lists of up to MaxFragments sentences
MaxFragments == 3
\* Largest number of WAV files handed to concatenateAudioNative.
MaxFiles == 3
\* POST /settings requests that may be under way at the same time.
MaxSettingsRequests == 2

\* Values runtime.NumCPU() may report at start-up (main.go:53).
CpuCoreCounts == {1, 17}
\* Arguments handed to SetMaxConcurrent: negative, zero, in range, above 32.
CapRequests == {-1, 0, 2, 33}
\* Arguments NewProcessQueue is evaluated on as a function of its own.
CtorArgs == -2..40

\* SpecLarge runs one sentence and one capacity change more than Spec.
LargeSentences == MaxSentences + 1
LargeSetCalls == MaxSetCalls + 1

\* Indices of the goroutines of a batch (and of their tasks).
Sentences == 1..LargeSentences

\* ------------------------------------------------------------- values
Min(a, b) == IF a < b THEN a ELSE b
Max(a, b) == IF a > b THEN a ELSE b
Range(s) == {s[i] : i \in 1..Len(s)}
LeastNotIn(S) == CHOOSE n \in 1..(Cardinality(S) + 1) :
                    n \notin S /\ \A m \in 1..(n - 1) : m \in S

\* error values: the nil error and the error generateAudio returns
NilError == "nil"
PiperError == "piper failed"
\* the empty file name (the "" generateAudio returns beside an error)
NoFile == 0
\* a goroutine's `item` before it has one
NoItem == [Task |-> 0, Result |-> 0, ID |-> 0]
\* the error generateAudioParallel returns: nil, or sentence number and cause
NoError == [sentence |-> 0, cause |-> NilError]
\* zero value of SentenceResult (results := make([]SentenceResult, n))
ZeroSentenceResult == [Index |-> 0, AudioFile |-> NoFile, Error |-> NilError]

VARIABLES
    cpuCores,       \* main.go: cpuCores = runtime.NumCPU()
    MaxConcurrent,  \* pq.MaxConcurrent
    running,        \* pq.running: the keys of the map (task IDs)
    queue,          \* pq.queue: sequence of QueueItem [Task, Result, ID]
    pqGoroutines,   \* processQueue goroutines created and not yet run
    requested,      \* history: the argument of the last NewProcessQueue / SetMaxConcurrent
    setCalls,       \* history: number of SetMaxConcurrent calls so far
    raisePending,   \* history: -1, or what the last SetMaxConcurrent call, a raise over a
                    \* non-empty queue, left to dispatch: min(pending, new capacity - running);
                    \* back to -1 at the next dispatch, submission or completion
    gpc,            \* generateAudioParallel: "idle", "waiting" (wg.Wait), "returned"
    numSentences,   \* len(sentences) of the batch
    wg,             \* the sync.WaitGroup counter
    caller,         \* goroutine i of the batch: "none", "start", "wait" (in Add), "done"
    resultChan,     \* resultChan of Add call i: the buffered TaskResults (at most one)
    addRet,         \* what Add call i returned: <<>> or <<TaskResult>>
    results,        \* results []SentenceResult
    worker,         \* goroutine started by processQueue for Task t: "none", "exec", "sent", "exited"
    item,           \* that goroutine's `item` (its QueueItem)
    outcome,        \* history: what item.Task() of sentence t returned: <<>> or <<TaskResult>>
    fs,             \* temp directory: names of the tts_*.wav files that exist
    ret,            \* what generateAudioParallel returned: [audioFiles, err]
    text,           \* the string handed to the text functions
    tpc,            \* which text function has run: "text", "normalized", "renormalized", "split"
    normalized,     \* normalizeTextForTTS(text)
    renormalized,   \* normalizeTextForTTS(normalized)
    sentences,      \* splitSentences(text)
    fragments,      \* the sentence list handed to mergeShortFragments
    merged,         \* mergeShortFragments(fragments)
    concatFiles,    \* concatenateAudioNative: its argument audioFiles, the paths of the input files
    disk,           \* the file at each input path: [kind, SampleRate, NumChannels, BitsPerSample, Data]
    output,         \* the file at outputPath
    cpc,            \* concatenateAudioNative: "ready", "returned"
    cerr,           \* the error concatenateAudioNative returned
    request,        \* convertHandler: the body of the POST /convert request
    maxTextLength,  \* main.go: maxTextLength (MAX_TEXT), 0 means no limit
    response,       \* convertHandler: the response it wrote
    hpc,            \* convertHandler: "none", "ready", "generate" (at the call of
                    \* generateAudioParallel), "synthesizing" (in it), "responded"
    validSentences, \* convertHandler: validSentences
    userSettings,   \* main.go: userSettings [MaxThreads, AutoDetectThreads]
    spc,            \* updateSettingsHandler of request h: "none", "start", "max",
                    \* "manual", "auto", "respond", "done"
    sreq,           \* the body of POST /settings request h: [MaxThreads,
                    \* AutoDetectThreads], a nil pointer << >>, a value <<v>>
    sresp,          \* the "settings" of the response to request h
    mu,             \* pq.mu: << >> when unlocked, else <<function, index or argument>> of its holder
    logged,         \* the pq.MaxConcurrent the log line of goroutine t printed: <<>> or <<value>>
    status          \* what the last GetStatus returned: <<>> or <<QueueStatus>>

vars == <<cpuCores, MaxConcurrent, running, queue, pqGoroutines, requested,
          setCalls, raisePending, gpc, numSentences, wg, caller, resultChan, addRet,
          results, worker, item, outcome, fs, ret,
          text, tpc, normalized, renormalized, sentences, fragments, merged,
          concatFiles, disk, output, cpc, cerr,
          request, maxTextLength, response, hpc, validSentences,
          userSettings, spc, sreq, sresp, mu, logged, status>>

queueVars == <<MaxConcurrent, running, queue, pqGoroutines, requested, setCalls, raisePending>>
batchVars == <<gpc, numSentences, wg, caller, resultChan, addRet, results, ret>>
workVars == <<worker, item, outcome, fs>>
textVars == <<text, tpc, normalized, renormalized, sentences, fragments, merged>>
\* what the queue and the orchestrator never touch
concatVars == <<concatFiles, disk, output, cpc, cerr>>
pureVars == <<textVars, concatVars>>
\* what the text functions and the concatenator never touch
convertVars == <<request, maxTextLength, response, hpc, validSentences>>
settingsVars == <<userSettings, spc, sreq, sresp>>
\* the state of the HTTP handlers
\* the mutex and what is read with it or without it
lockVars == <<mu, logged, status>>
handlerVars == <<convertVars, settingsVars, lockVars>>
otherThanText == <<cpuCores, queueVars, batchVars, workVars, concatVars, handlerVars>>
otherThanConcat == <<cpuCores, queueVars, batchVars, workVars, textVars, handlerVars>>

\* ------------------------------------------------------------ queue.go

\* NewProcessQueue: the capacity the constructor stores.
NewProcessQueue(maxConcurrent) ==
    LET m1 == IF maxConcurrent < 1 THEN 1 ELSE maxConcurrent
        m2 == IF m1 > 32 THEN 32 ELSE m1
    IN  m2

\* The part of the state main() does not decide by the core count.
InitRest ==
    /\ running = {}
    /\ queue = << >>
    /\ pqGoroutines = 0
    /\ setCalls = 0
    /\ raisePending = -1
    /\ gpc = "idle"
    /\ numSentences = 0
    /\ wg = 0
    /\ caller = [i \in Sentences |-> "none"]
    /\ resultChan = [i \in Sentences |-> << >>]
    /\ addRet = [i \in Sentences |-> << >>]
    /\ results = << >>
    /\ worker = [t \in Sentences |-> "none"]
    /\ item = [t \in Sentences |-> NoItem]
    /\ outcome = [t \in Sentences |-> << >>]
    /\ fs = {}
    /\ ret = [audioFiles |-> << >>, err |-> NoError]
    /\ mu = << >>
    /\ logged = [t \in Sentences |-> << >>]
    /\ status = << >>

\* No text function has been called.
NoText ==
    /\ text = << >>
    /\ tpc = "text"
    /\ normalized = << >>
    /\ renormalized = << >>
    /\ sentences = << >>
    /\ fragments = << >>
    /\ merged = << >>

\* the paths of the per-sentence files handed to concatenateAudioNative
Paths == 1..MaxFiles
\* no file at a path
Missing == [kind |-> "missing", SampleRate |-> 0, NumChannels |-> 0, BitsPerSample |-> 0, Data |-> << >>]

\* concatenateAudioNative has not been called and no file exists.
NoConcat ==
    /\ concatFiles = << >>
    /\ disk = [f \in Paths |-> Missing]
    /\ output = Missing
    /\ cpc = "ready"
    /\ cerr = NilError

\* the POST /settings requests under way at a time
Handlers == 1..MaxSettingsRequests
NoRequest == [decodes |-> TRUE, Text |-> << >>, ModelPath |-> ""]
NoResponse == [status |-> 0, success |-> FALSE, error |-> ""]
NoSettingsBody == [MaxThreads |-> << >>, AutoDetectThreads |-> << >>]
NoSettingsResponse == [maxThreads |-> 0, autoDetectThreads |-> FALSE, currentMaxConcurrent |-> 0]

\* No POST /convert request has come.
NoConvert ==
    /\ request = NoRequest
    /\ maxTextLength = 0
    /\ response = NoResponse
    /\ hpc = "none"
    /\ validSentences = << >>

\* main(): userSettings = Settings{MaxThreads: maxConcurrent, AutoDetectThreads: true}
InitSettings == userSettings = [MaxThreads |-> cpuCores * 2, AutoDetectThreads |-> TRUE]

\* No POST /settings request has come.
NoSettingsRequest ==
    /\ InitSettings
    /\ spc = [h \in Handlers |-> "none"]
    /\ sreq = [h \in Handlers |-> NoSettingsBody]
    /\ sresp = [h \in Handlers |-> NoSettingsResponse]

\* main(): processQueue = NewProcessQueue(cpuCores * 2)
Init ==
    /\ cpuCores \in CpuCoreCounts
    /\ requested = cpuCores * 2
    /\ MaxConcurrent = NewProcessQueue(requested)
    /\ InitRest
    /\ NoText
    /\ NoConcat
    /\ NoConvert
    /\ NoSettingsRequest

\* A clamp that lost its ceiling (the `if max > 32` dropped).
ClampMaxNoCeiling(max) == IF max < 1 THEN 1 ELSE max

\* The clamp of SetMaxConcurrent (queue.go:59-66).
ClampMax(max) ==
    LET m1 == IF max < 1 THEN 1 ELSE max
        m2 == IF m1 > 32 THEN 32 ELSE m1
    IN  m2

\* A SetMaxConcurrent that empties the running set when more tasks run than
\* the new capacity allows.
SetMaxConcurrentAbort(max) ==
    /\ MaxConcurrent' = ClampMax(max)
    /\ pqGoroutines' = pqGoroutines + 1
    /\ requested' = max
    /\ setCalls' = setCalls + 1
    /\ raisePending' = -1
    /\ running' = IF Cardinality(running) > ClampMax(max) THEN {} ELSE running
    /\ UNCHANGED <<cpuCores, queue>>
    /\ UNCHANGED batchVars
    /\ UNCHANGED workVars
    /\ UNCHANGED pureVars

\* SetMaxConcurrent(max): under pq.mu, clamp, store, go pq.processQueue().
SetMaxConcurrent(max) ==
    /\ MaxConcurrent' = ClampMax(max)
    /\ pqGoroutines' = pqGoroutines + 1
    /\ requested' = max
    /\ setCalls' = setCalls + 1
    /\ raisePending' =
          IF ClampMax(max) > MaxConcurrent /\ queue # << >> /\ ClampMax(max) > Cardinality(running)
          THEN Min(Len(queue), ClampMax(max) - Cardinality(running))
          ELSE -1
    /\ UNCHANGED <<cpuCores, running, queue>>
    /\ UNCHANGED batchVars
    /\ UNCHANGED workVars
    /\ UNCHANGED pureVars

\* generateRandomID: 4 random bytes.  Only equality of IDs matters, so a draw
\* is either the ID of an item still in pq.queue or held by a goroutine that
\* has not yet deleted it from pq.running (a collision), or an ID nobody
\* holds, represented by the least such number.
LiveIDs ==
    {queue[k].ID : k \in 1..Len(queue)}
        \cup {item[t].ID : t \in {u \in Sentences : worker[u] \in {"exec", "sent"}}}
generateRandomID == LiveIDs \cup {LeastNotIn(LiveIDs)}

\* Add, first half (queue.go:74-93): make the channel and the item, append
\* the item under pq.mu, go pq.processQueue().  The caller then blocks on
\* <-resultChan (AddReturn).
Add(i) ==
    /\ caller[i] = "start"
    /\ \E id \in generateRandomID :
          queue' = Append(queue, [Task |-> i, Result |-> i, ID |-> id])
    /\ pqGoroutines' = pqGoroutines + 1
    /\ caller' = [caller EXCEPT ![i] = "wait"]
    /\ raisePending' = -1
    /\ UNCHANGED <<cpuCores, MaxConcurrent, running, requested, setCalls>>
    /\ UNCHANGED <<gpc, numSentences, wg, resultChan, addRet, results, ret>>
    /\ UNCHANGED workVars
    /\ UNCHANGED pureVars

\* The loop with `<=` for `<` in its capacity test.
RECURSIVE DispatchLoopOffByOne(_, _, _)
DispatchLoopOffByOne(q, r, started) ==
    IF Len(q) > 0 /\ Cardinality(r) <= MaxConcurrent
    THEN DispatchLoopOffByOne(Tail(q), r \cup {Head(q).ID}, Append(started, Head(q)))
    ELSE [queue |-> q, running |-> r, started |-> started]

\* The loop taking the newest item (the tail of pq.queue) instead of the head.
RECURSIVE DispatchLoopLifo(_, _, _)
DispatchLoopLifo(q, r, started) ==
    IF Len(q) > 0 /\ Cardinality(r) < MaxConcurrent
    THEN DispatchLoopLifo(SubSeq(q, 1, Len(q) - 1), r \cup {q[Len(q)].ID},
                          Append(started, q[Len(q)]))
    ELSE [queue |-> q, running |-> r, started |-> started]

\* The loop of processQueue (queue.go:104-135), run under pq.mu: the queue
\* and running set it leaves and the items it started, in order.
RECURSIVE DispatchLoop(_, _, _)
DispatchLoop(q, r, started) ==
    IF Len(q) > 0 /\ Cardinality(r) < MaxConcurrent
    THEN DispatchLoop(Tail(q), r \cup {Head(q).ID}, Append(started, Head(q)))
    ELSE [queue |-> q, running |-> r, started |-> started]

\* One processQueue goroutine runs.
processQueue ==
    /\ pqGoroutines > 0
    /\ LET d == DispatchLoop(queue, running, << >>)
           S == {d.started[k].Task : k \in 1..Len(d.started)}
           itemOf(t) == CHOOSE x \in Range(d.started) : x.Task = t
       IN  /\ queue' = d.queue
           /\ running' = d.running
           /\ worker' = [t \in Sentences |-> IF t \in S THEN "exec" ELSE worker[t]]
           /\ item' = [t \in Sentences |-> IF t \in S THEN itemOf(t) ELSE item[t]]
    /\ pqGoroutines' = pqGoroutines - 1
    /\ raisePending' = -1
    /\ UNCHANGED <<cpuCores, MaxConcurrent, requested, setCalls, outcome, fs>>
    /\ UNCHANGED batchVars
    /\ UNCHANGED pureVars

\* ------------------------------------------------------------ audio.go

\* generateAudio: the file name is 8 random bytes; as for the IDs only
\* equality matters, so the name is one an earlier task of the batch drew or
\* the least unused one.  Piper either writes the file and exits 0, or fails.
UsedFiles == {outcome[t][1].Data : t \in {u \in Sentences : outcome[u] # << >>}} \ {NoFile}
generateAudio ==
    {[Data |-> f, Error |-> NilError] : f \in UsedFiles \cup {LeastNotIn(UsedFiles)}}
        \cup {[Data |-> NoFile, Error |-> PiperError]}

\* A goroutine that sends on the channel of another item.
SendChannelOfNeighbour(it) == (it.Result % MaxSentences) + 1

\* The channel the goroutine sends its TaskResult on: item.Result.
SendChannel(it) == it.Result

\* The goroutine processQueue started (queue.go:114-118): run item.Task(),
\* send the result on item.Result, close it.
TaskExecute(t) ==
    /\ worker[t] = "exec"
    /\ \E r \in generateAudio :
          /\ outcome' = [outcome EXCEPT ![item[t].Task] = <<r>>]
          /\ fs' = IF r.Error = NilError THEN fs \cup {r.Data} ELSE fs
          /\ resultChan' = [resultChan EXCEPT ![SendChannel(item[t])] = Append(@, r)]
    /\ worker' = [worker EXCEPT ![t] = "sent"]
    /\ UNCHANGED queueVars
    /\ UNCHANGED <<cpuCores, gpc, numSentences, wg, caller, addRet, results, ret, item>>
    /\ UNCHANGED pureVars

\* A tail that forgets `go pq.processQueue()`.
TaskExitNoRedispatch(t) ==
    /\ worker[t] = "sent"
    /\ running' = running \ {item[t].ID}
    /\ worker' = [worker EXCEPT ![t] = "exited"]
    /\ item' = [item EXCEPT ![t] = NoItem]
    /\ raisePending' = -1
    /\ UNCHANGED <<cpuCores, MaxConcurrent, queue, pqGoroutines, requested, setCalls, outcome, fs>>
    /\ UNCHANGED batchVars
    /\ UNCHANGED pureVars

\* The goroutine's tail (queue.go:121-133): under pq.mu delete its ID from
\* pq.running, then go pq.processQueue().
TaskExit(t) ==
    /\ worker[t] = "sent"
    /\ running' = running \ {item[t].ID}
    /\ pqGoroutines' = pqGoroutines + 1
    /\ worker' = [worker EXCEPT ![t] = "exited"]
    /\ item' = [item EXCEPT ![t] = NoItem]
    /\ raisePending' = -1
    /\ UNCHANGED <<cpuCores, MaxConcurrent, queue, requested, setCalls, outcome, fs>>
    /\ UNCHANGED batchVars
    /\ UNCHANGED pureVars

\* A result list filled in completion order: the next free slot is written.
RecordResultInCompletionOrder(res, index, r) ==
    LET free == {k \in 1..Len(res) : res[k] = ZeroSentenceResult}
        slot == IF free = {} THEN index ELSE CHOOSE k \in free : \A m \in free : k <= m
    IN  [res EXCEPT ![slot] = [Index |-> index - 1, AudioFile |-> r.Data, Error |-> r.Error]]

\* results[index] = SentenceResult{...} (audio.go, README.md:617-635)
RecordResult(res, index, r) ==
    [res EXCEPT ![index] = [Index |-> index - 1, AudioFile |-> r.Data, Error |-> r.Error]]

\* A batch goroutine that submits its sentence again when the task failed.
AddReturnRetry(i) ==
    /\ caller[i] = "wait"
    /\ resultChan[i] # << >>
    /\ LET r == Head(resultChan[i])
       IN  IF r.Error # NilError /\ worker[i] = "exited"
           THEN /\ caller' = [caller EXCEPT ![i] = "start"]
                /\ UNCHANGED <<addRet, results, wg>>
           ELSE /\ addRet' = [addRet EXCEPT ![i] = <<r>>]
                /\ results' = RecordResult(results, i, r)
                /\ caller' = [caller EXCEPT ![i] = "done"]
                /\ wg' = wg - 1
    /\ resultChan' = [resultChan EXCEPT ![i] = Tail(@)]
    /\ UNCHANGED queueVars
    /\ UNCHANGED workVars
    /\ UNCHANGED <<cpuCores, gpc, numSentences, ret>>
    /\ UNCHANGED pureVars

\* Add, second half (queue.go:96-97), and the rest of the batch goroutine:
\* receive the TaskResult, return it, store it in results[index], wg.Done().
AddReturn(i) ==
    /\ caller[i] = "wait"
    /\ resultChan[i] # << >>
    /\ LET r == Head(resultChan[i])
       IN  /\ addRet' = [addRet EXCEPT ![i] = <<r>>]
           /\ results' = RecordResult(results, i, r)
    /\ resultChan' = [resultChan EXCEPT ![i] = Tail(@)]
    /\ caller' = [caller EXCEPT ![i] = "done"]
    /\ wg' = wg - 1
    /\ UNCHANGED queueVars
    /\ UNCHANGED workVars
    /\ UNCHANGED <<cpuCores, gpc, numSentences, ret>>
    /\ UNCHANGED pureVars

\* generateAudioParallel up to wg.Wait(): make results, start one goroutine
\* per sentence (wg.Add(1) each).
generateAudioParallelStart(n) ==
    /\ gpc = "idle"
    /\ gpc' = "waiting"
    /\ numSentences' = n
    /\ results' = [k \in 1..n |-> ZeroSentenceResult]
    /\ wg' = n
    /\ caller' = [i \in Sentences |-> IF i <= n THEN "start" ELSE "none"]
    /\ UNCHANGED queueVars
    /\ UNCHANGED workVars
    /\ UNCHANGED <<cpuCores, resultChan, addRet, ret>>
    /\ UNCHANGED pureVars

\* A collection loop that reports the failed sentence with the highest index.
RECURSIVE CollectResultsLastError(_, _, _, _)
CollectResultsLastError(res, k, audioFiles, files) ==
    IF k > Len(res)
    THEN [audioFiles |-> audioFiles, err |-> NoError, fs |-> files]
    ELSE IF res[k].Error # NilError
         THEN LET failed == {j \in k..Len(res) : res[j].Error # NilError}
                  last == CHOOSE j \in failed : \A m \in failed : m <= j
              IN  [audioFiles |-> << >>,
                   err |-> [sentence |-> res[last].Index + 1, cause |-> res[last].Error],
                   fs |-> files \ Range(audioFiles)]
         ELSE CollectResultsLastError(res, k + 1, Append(audioFiles, res[k].AudioFile), files)

\* A collection loop that skips a failed sentence instead of giving up.
RECURSIVE CollectResultsPartial(_, _, _, _)
CollectResultsPartial(res, k, audioFiles, files) ==
    IF k > Len(res)
    THEN [audioFiles |-> audioFiles, err |-> NoError, fs |-> files]
    ELSE IF res[k].Error # NilError
         THEN CollectResultsPartial(res, k + 1, audioFiles, files)
         ELSE CollectResultsPartial(res, k + 1, Append(audioFiles, res[k].AudioFile), files)

\* The loop after wg.Wait() (README.md:641-655): collect the audio files in
\* index order; at the first error remove the files collected so far and
\* return the error.
RECURSIVE CollectResults(_, _, _, _)
CollectResults(res, k, audioFiles, files) ==
    IF k > Len(res)
    THEN [audioFiles |-> audioFiles, err |-> NoError, fs |-> files]
    ELSE IF res[k].Error # NilError
         THEN [audioFiles |-> << >>,
               err |-> [sentence |-> res[k].Index + 1, cause |-> res[k].Error],
               fs |-> files \ Range(audioFiles)]
         ELSE CollectResults(res, k + 1, Append(audioFiles, res[k].AudioFile), files)

\* A generateAudioParallel that gives up waiting as soon as one result
\* stored in results has an error.
generateAudioParallelReturnEarly ==
    /\ gpc = "waiting"
    /\ wg = 0 \/ \E k \in 1..Len(results) : results[k].Error # NilError
    /\ LET c == CollectResults(results, 1, << >>, fs)
       IN  /\ ret' = [audioFiles |-> c.audioFiles, err |-> c.err]
           /\ fs' = c.fs
    /\ gpc' = "returned"
    /\ UNCHANGED queueVars
    /\ UNCHANGED <<cpuCores, numSentences, wg, caller, resultChan, addRet, results>>
    /\ UNCHANGED <<worker, item, outcome>>
    /\ UNCHANGED pureVars

\* wg.Wait() returns, then the collection loop (README.md:639-655).
generateAudioParallelReturn ==
    /\ gpc = "waiting"
    /\ wg = 0
    /\ LET c == CollectResults(results, 1, << >>, fs)
       IN  /\ ret' = [audioFiles |-> c.audioFiles, err |-> c.err]
           /\ fs' = c.fs
    /\ gpc' = "returned"
    /\ UNCHANGED queueVars
    /\ UNCHANGED <<cpuCores, numSentences, wg, caller, resultChan, addRet, results>>
    /\ UNCHANGED <<worker, item, outcome>>
    /\ UNCHANGED pureVars


\* ------------------------------------------------- text (unnamed/part_000)
\* A Go string is modelled as the sequence of its runes, each rune a
\* one-character string; a rune outside Latin-1 is written by its code
\* point ("U+2026" is the ellipsis glyph).

\* regexp \s: [\t\n\f\r ]
Space == {" ", "\t", "\n", "\f", "\r"}
\* the class [A-ZÁÉÍÓÚÑÜ] of the patterns; unicode.IsUpper agrees with it on
\* every rune used here
Upper == {"A", "B", "C", "D", "E", "F", "G", "H", "I", "J", "K", "L", "M", "N",
          "O", "P", "Q", "R", "S", "T", "U", "V", "W", "X", "Y", "Z",
          "Á", "É", "Í", "Ó", "Ú", "Ñ", "Ü"}
LowerAscii == {"a", "b", "c", "d", "e", "f", "g", "h", "i", "j", "k", "l", "m", "n",
               "o", "p", "q", "r", "s", "t", "u", "v", "w", "x", "y", "z"}
Digit == {"0", "1", "2", "3", "4", "5", "6", "7", "8", "9"}
\* regexp \w: [0-9A-Za-z_]
WordChar == (Upper \ {"Á", "É", "Í", "Ó", "Ú", "Ñ", "Ü"}) \cup LowerAscii \cup Digit \cup {"_"}
\* runes whose UTF-8 encoding takes more than one byte
TwoByte == {"Á", "É", "Í", "Ó", "Ú", "Ñ", "Ü", "á", "é", "í", "ó", "ú", "ñ", "ü", "¿", "¡"}
ThreeByte == {"U+201C", "U+201D", "U+2018", "U+2019", "U+2013", "U+2014", "U+2026"}

Drop(s, n) == SubSeq(s, n + 1, Len(s))
HasPrefix(s, p) == Len(s) >= Len(p) /\ SubSeq(s, 1, Len(p)) = p
HasSuffix(s, p) == Len(s) >= Len(p) /\ SubSeq(s, Len(s) - Len(p) + 1, Len(s)) = p
Contains(s, p) == \E i \in 1..(Len(s) - Len(p) + 1) : SubSeq(s, i, i + Len(p) - 1) = p
\* the least and the greatest index of a non-empty set of indices
Least(S) == CHOOSE i \in S : \A j \in S : i <= j
Greatest(S) == CHOOSE i \in S : \A j \in S : i >= j
\* number of leading runes of s that are in the class C
RunLen(s, C) ==
    LET others == {i \in 1..Len(s) : s[i] \notin C}
    IN  IF others = {} THEN Len(s) ELSE Least(others) - 1
\* index of the first rune of s in the class C, 0 if there is none
IndexAny(s, C) ==
    LET hits == {i \in 1..Len(s) : s[i] \in C}
    IN  IF hits = {} THEN 0 ELSE Least(hits)
\* index of the first rune of s after rune i that is no whitespace, 0 if
\* there is none: where a pattern goes on after `\s*`
After(s, i) ==
    LET k == RunLen(Drop(s, i), Space)
    IN  IF i + k < Len(s) THEN i + k + 1 ELSE 0

\* len(s): the number of bytes
ByteLen(s) ==
    Len(s) + Cardinality({i \in 1..Len(s) : s[i] \in TwoByte})
           + 2 * Cardinality({i \in 1..Len(s) : s[i] \in ThreeByte})

\* The element of a one-element set.  A Go function receives the value of
\* its argument: The({e(s) : s \in {str}}) is e of the value of str.
The(S) == CHOOSE x \in S : TRUE

\* strings.TrimSpace
TrimSpace(str) ==
    The({LET a == RunLen(s, Space)
             inner == {k \in 1..Len(s) : s[k] \notin Space}
         IN  IF inner = {} THEN << >> ELSE SubSeq(s, a + 1, Greatest(inner))
         : s \in {str}})

\* strings.ReplaceAll(s, old, new), old not empty.  Here and in the regexp
\* replacements below, hits are the indices where a match begins, the
\* leftmost match is replaced and the search goes on behind it.
RECURSIVE ReplaceAll(_, _, _)
ReplaceAll(str, old, new) ==
    The({LET hits == {i \in 1..(Len(s) - Len(old) + 1) : SubSeq(s, i, i + Len(old) - 1) = old}
             p == Least(hits)
         IN  IF hits = {} THEN s
             ELSE SubSeq(s, 1, p - 1) \o new \o ReplaceAll(Drop(s, p - 1 + Len(old)), old, new)
         : s \in {str}})

\* `\n\s*\n` -> ". "
RECURSIVE ParagraphBreaks(_)
ParagraphBreaks(str) ==
    The({LET hits == {i \in 1..Len(s) :
                         /\ s[i] = "\n"
                         /\ \E j \in (i + 1)..(i + RunLen(Drop(s, i), Space)) : s[j] = "\n"}
             p == Least(hits)
             last == Greatest({j \in (p + 1)..(p + RunLen(Drop(s, p), Space)) : s[j] = "\n"})
         IN  IF hits = {} THEN s
             ELSE SubSeq(s, 1, p - 1) \o <<".", " ">> \o ParagraphBreaks(Drop(s, last))
         : s \in {str}})

\* `cc+` -> "c" for one mark c
RECURSIVE CollapseRuns(_, _)
CollapseRuns(str, c) ==
    The({LET hits == {i \in 1..(Len(s) - 1) : s[i] = c /\ s[i + 1] = c}
             p == Least(hits)
         IN  IF hits = {} THEN s
             ELSE SubSeq(s, 1, p) \o CollapseRuns(Drop(s, p - 1 + RunLen(Drop(s, p - 1), {c})), c)
         : s \in {str}})

\* `¿([^?]*?)\?` replaced by "¿" + TrimSpace(content) + "?" (and ¡ ... !)
RECURSIVE ProperFormat(_, _, _)
ProperFormat(str, open, close) ==
    The({LET hits == {i \in 1..Len(s) : s[i] = open /\ IndexAny(Drop(s, i), {close}) > 0}
             p == Least(hits)
             j == IndexAny(Drop(s, p), {close})
         IN  IF hits = {} THEN s
             ELSE SubSeq(s, 1, p) \o TrimSpace(SubSeq(s, p + 1, p + j - 1)) \o <<close>>
                      \o ProperFormat(Drop(s, p + j), open, close)
         : s \in {str}})

\* where the match of `¿\s*([^?]*?)\.` that begins at rune i of s ends: the
\* index of its period, 0 if there is no match (and ¡ ... !)
IncompleteEnd(s, i, close) ==
    LET w == RunLen(Drop(s, i), Space)
        j == IndexAny(Drop(s, i + w), {".", close})
    IN  IF j > 0 /\ s[i + w + j] = "." THEN i + w + j ELSE 0

\* `¿\s*([^?]*?)\.` -> "¿$1?" (and ¡ ... !)
RECURSIVE FixIncomplete(_, _, _)
FixIncomplete(str, open, close) ==
    The({LET hits == {i \in 1..Len(s) : s[i] = open /\ IncompleteEnd(s, i, close) > 0}
             p == Least(hits)
             e == IncompleteEnd(s, p, close)
         IN  IF hits = {} THEN s
             ELSE SubSeq(s, 1, p) \o SubSeq(s, p + RunLen(Drop(s, p), Space) + 1, e - 1)
                      \o <<close>> \o FixIncomplete(Drop(s, e), open, close)
         : s \in {str}})

\* `:\s*$` -> "."
TrailingColon(str) ==
    The({LET hits == {i \in 1..Len(s) : s[i] = ":" /\ After(s, i) = 0}
         IN  IF hits = {} THEN s ELSE SubSeq(s, 1, Least(hits) - 1) \o <<".">>
         : s \in {str}})

\* `:\s*([A-ZÁÉÍÓÚÑÜ])` -> ". $1"
RECURSIVE ColonUpper(_)
ColonUpper(str) ==
    The({LET hits == {i \in 1..Len(s) : s[i] = ":" /\ After(s, i) > 0 /\ s[After(s, i)] \in Upper}
             p == Least(hits)
             a == After(s, p)
         IN  IF hits = {} THEN s
             ELSE SubSeq(s, 1, p - 1) \o <<".", " ", s[a]>> \o ColonUpper(Drop(s, a))
         : s \in {str}})

\* `\s+([.!?¿¡,;:])` -> "$1"
RECURSIVE SpaceBeforePunct(_)
SpaceBeforePunct(str) ==
    The({LET hits == {i \in 1..Len(s) :
                         /\ s[i] \in Space
                         /\ After(s, i) > 0
                         /\ s[After(s, i)] \in {".", "!", "?", "¿", "¡", ",", ";", ":"}}
             p == Least(hits)
             a == After(s, p)
         IN  IF hits = {} THEN s
             ELSE SubSeq(s, 1, p - 1) \o <<s[a]>> \o SpaceBeforePunct(Drop(s, a))
         : s \in {str}})

\* `([L])\s*([R])` -> "$1 $2" for classes L and R
RECURSIVE SpaceBetween(_, _, _)
SpaceBetween(str, L, R) ==
    The({LET hits == {i \in 1..Len(s) : s[i] \in L /\ After(s, i) > 0 /\ s[After(s, i)] \in R}
             p == Least(hits)
             a == After(s, p)
         IN  IF hits = {} THEN s
             ELSE SubSeq(s, 1, p) \o <<" ", s[a]>> \o SpaceBetween(Drop(s, a), L, R)
         : s \in {str}})

\* `\.{4,}` -> "..."
RECURSIVE DotRuns(_)
DotRuns(str) ==
    The({LET hits == {i \in 1..(Len(s) - 3) : SubSeq(s, i, i + 3) = <<".", ".", ".", ".">>}
             p == Least(hits)
         IN  IF hits = {} THEN s
             ELSE SubSeq(s, 1, p + 2) \o DotRuns(Drop(s, p - 1 + RunLen(Drop(s, p - 1), {"."})))
         : s \in {str}})

\* for strings.Contains(s, "..") && !strings.Contains(s, "...") { ReplaceAll }
RECURSIVE DoubleDots(_)
DoubleDots(str) ==
    The({IF Contains(s, <<".", ".">>) /\ ~Contains(s, <<".", ".", ".">>)
         THEN DoubleDots(ReplaceAll(s, <<".", ".">>, <<".">>))
         ELSE s
         : s \in {str}})

\* `([!?]){2,}` -> "$1": the group keeps the last mark of the run
RECURSIVE DuplicatePunct(_)
DuplicatePunct(str) ==
    The({LET hits == {i \in 1..(Len(s) - 1) : s[i] \in {"!", "?"} /\ s[i + 1] \in {"!", "?"}}
             p == Least(hits)
             last == p - 1 + RunLen(Drop(s, p - 1), {"!", "?"})
         IN  IF hits = {} THEN s
             ELSE SubSeq(s, 1, p - 1) \o <<s[last]>> \o DuplicatePunct(Drop(s, last))
         : s \in {str}})

\* `\s+` -> " "; a run that is one space already stays as it is
RECURSIVE CollapseSpace(_)
CollapseSpace(str) ==
    The({LET hits == {i \in 1..Len(s) :
                         /\ s[i] \in Space
                         /\ s[i] # " " \/ (i < Len(s) /\ s[i + 1] \in Space)}
             p == Least(hits)
         IN  IF hits = {} THEN s
             ELSE SubSeq(s, 1, p - 1) \o <<" ">>
                      \o CollapseSpace(Drop(s, p - 1 + RunLen(Drop(s, p - 1), Space)))
         : s \in {str}})

\* statement k of normalizeTextForTTS applied to the string n
NormalizeStep(k, n) ==
    CASE k = 1 -> ParagraphBreaks(n)
      [] k = 2 -> ReplaceAll(n, <<"\n">>, <<" ">>)
      [] k = 3 -> ReplaceAll(n, <<"U+201C">>, <<"\"">>)
      [] k = 4 -> ReplaceAll(n, <<"U+201D">>, <<"\"">>)
      [] k = 5 -> ReplaceAll(n, <<"U+2018">>, <<"\"">>)
      [] k = 6 -> ReplaceAll(n, <<"U+2019">>, <<"\"">>)
      [] k = 7 -> ReplaceAll(n, <<"U+2013">>, <<"-">>)
      [] k = 8 -> ReplaceAll(n, <<"U+2014">>, <<"-">>)
      [] k = 9 -> ReplaceAll(n, <<"U+2026">>, <<".", ".", ".">>)
      [] k = 10 -> ReplaceAll(n, <<"¿", "¡">>, <<"¿">>)
      [] k = 11 -> ReplaceAll(n, <<"¡", "¿">>, <<"¡">>)
      [] k = 12 -> ReplaceAll(n, <<"?", "!">>, <<"?">>)
      [] k = 13 -> ReplaceAll(n, <<"!", "?">>, <<"!">>)
      [] k = 14 -> CollapseRuns(n, "¿")
      [] k = 15 -> CollapseRuns(n, "¡")
      [] k = 16 -> CollapseRuns(n, "?")
      [] k = 17 -> CollapseRuns(n, "!")
      [] k = 18 -> ProperFormat(n, "¿", "?")
      [] k = 19 -> ProperFormat(n, "¡", "!")
      [] k = 20 -> FixIncomplete(n, "¿", "?")
      [] k = 21 -> FixIncomplete(n, "¡", "!")
      [] k = 22 -> TrailingColon(n)
      [] k = 23 -> ColonUpper(n)
      [] k = 24 -> SpaceBeforePunct(n)
      [] k = 25 -> SpaceBetween(n, {".", "!", "?"}, {"¿", "¡"})
      [] k = 26 -> SpaceBetween(n, {".", "!", "?"}, Upper)
      [] k = 27 -> SpaceBetween(n, {",", ":", ";"}, Upper)
      [] k = 28 -> DotRuns(n)
      [] k = 29 -> DoubleDots(n)
      [] k = 30 -> DuplicatePunct(n)
      [] k = 31 -> CollapseSpace(n)
      [] k = 32 -> TrimSpace(n)

\* the statements a..b in order: the first half of the range, then the second half
\* on its result
RECURSIVE NormalizeRange(_, _, _)
NormalizeRange(a, b, str) ==
    IF a > b THEN str
    ELSE IF a = b THEN NormalizeStep(a, str)
    ELSE CHOOSE r \in {NormalizeRange(((a + b) \div 2) + 1, b, s)
                         : s \in {NormalizeRange(a, (a + b) \div 2, str)}} : TRUE

\* the statements from k on
NormalizeFrom(k, str) == NormalizeRange(k, 32, str)

\* normalizeTextForTTS
normalizeTextForTTS(t) == NormalizeFrom(1, t)

\* ---- splitSentences and its helpers
\* The abbreviations in the order of the source's list
abbreviations ==
    <<<<"S", "r", ".">>, <<"S", "r", "a", ".">>,
      <<"S", "r", "t", "a", ".">>, <<"D", "r", ".">>,
      <<"D", "r", "a", ".">>, <<"P", "r", "o", "f", ".">>,
      <<"P", "r", "o", "f", "a", ".">>, <<"L", "i", "c", ".">>,
      <<"L", "i", "c", "d", "a", ".">>, <<"I", "n", "g", ".">>,
      <<"I", "n", "g", "a", ".">>, <<"A", "r", "q", ".">>,
      <<"A", "r", "q", "a", ".">>, <<"M", "t", "r", "o", ".">>,
      <<"M", "t", "r", "a", ".">>, <<"e", "t", "c", ".">>,
      <<"v", "s", ".">>, <<"p", ".", "e", "j", ".">>, <<"M", "r", ".">>,
      <<"M", "r", "s", ".">>, <<"M", "s", ".">>, <<"I", "n", "c", ".">>,
      <<"L", "t", "d", ".">>, <<"C", "o", "r", "p", ".">>,
      <<"C", "o", ".">>, <<"e", ".", "g", ".">>, <<"i", ".", "e", ".">>,
      <<"c", "f", ".">>, <<"v", "o", "l", ".">>, <<"c", "a", "p", ".">>,
      <<"a", "r", "t", ".">>, <<"n", "ú", "m", ".">>,
      <<"p", "á", "g", ".">>, <<"e", "d", ".">>,
      <<"o", "p", ".", "c", "i", "t", ".">>>>

\* strconv of a small non-negative number
DigitSeq == <<"0", "1", "2", "3", "4", "5", "6", "7", "8", "9">>
Itoa(n) == IF n < 10 THEN <<DigitSeq[n + 1]>> ELSE <<DigitSeq[(n \div 10) + 1], DigitSeq[(n % 10) + 1]>>
\* fmt.Sprintf("__ABBREV_%d__", i): i counts from 0, abbreviations[k] has i = k - 1
placeholder(k) ==
    <<"_", "_", "A", "B", "B", "R", "E", "V", "_">> \o Itoa(k - 1) \o <<"_", "_">>

\* for i, abbrev := range abbreviations { ReplaceAll(protectedText, abbrev, placeholder) }
ProtectStep(i, str) == ReplaceAll(str, abbreviations[i], placeholder(i))
\* the iterations a..b in order: the first half of the range, then the second half
\* on its result
RECURSIVE ProtectRange(_, _, _)
ProtectRange(a, b, str) ==
    IF a > b THEN str
    ELSE IF a = b THEN ProtectStep(a, str)
    ELSE CHOOSE r \in {ProtectRange(((a + b) \div 2) + 1, b, s)
                         : s \in {ProtectRange(a, (a + b) \div 2, str)}} : TRUE
\* from abbreviations[k] on
Protect(str, k) == ProtectRange(k, Len(abbreviations), str)

\* for placeholder, original := range protectionMap { ReplaceAll(sentence, placeholder, original) }
\* (no placeholder is part of another, so the order of the map does not matter)
RestoreStep(i, str) == ReplaceAll(str, placeholder(i), abbreviations[i])
\* the iterations a..b in order: the first half of the range, then the second half
\* on its result
RECURSIVE RestoreRange(_, _, _)
RestoreRange(a, b, str) ==
    IF a > b THEN str
    ELSE IF a = b THEN RestoreStep(a, str)
    ELSE CHOOSE r \in {RestoreRange(((a + b) \div 2) + 1, b, s)
                         : s \in {RestoreRange(a, (a + b) \div 2, str)}} : TRUE
\* from the placeholder of abbreviations[k] on
Restore(str, k) == RestoreRange(k, Len(abbreviations), str)

\* The scan loop of splitSentences (part_000:241-283) and the "remaining
\* text" step after it.  currentSentence is always the runes from `start`
\* up to the rune just read, and a rune that is no terminal mark is only
\* appended, so the loop is followed from one terminal mark to the next:
\* `from` is the first rune not yet read, i the next terminal mark.
RECURSIVE Scan(_, _, _, _)
Scan(runes, from0, start0, sentences0) ==
    The({LET j == IndexAny(Drop(runes, from - 1), {".", "!", "?"})
             i == from - 1 + j
             sentence == TrimSpace(SubSeq(runes, start, i))
             closed == IF ByteLen(sentence) > 3 THEN Append(acc, sentence) ELSE acc
             a == After(runes, i)
             remaining == TrimSpace(SubSeq(runes, start, Len(runes)))
         IN  IF from > Len(runes) \/ j = 0
             THEN IF ByteLen(remaining) > 3 THEN Append(acc, remaining) ELSE acc
             ELSE IF i = Len(runes) THEN Scan(runes, i + 1, i + 1, closed)
             ELSE IF a > 0
                     /\ \/ runes[a] \in Upper /\ ByteLen(sentence) > 10
                        \/ runes[a] \in {"¿", "¡"}
             THEN Scan(runes, i + 1, i + 1, closed)
             ELSE Scan(runes, i + 1, start, acc)
         : from \in {from0}, start \in {start0}, acc \in {sentences0}})

\* (?i): simple case folding of the runes used here
UpperSeq == <<"A", "B", "C", "D", "E", "F", "G", "H", "I", "J", "K", "L", "M", "N",
              "O", "P", "Q", "R", "S", "T", "U", "V", "W", "X", "Y", "Z",
              "Á", "É", "Í", "Ó", "Ú", "Ñ", "Ü">>
LowerSeq == <<"a", "b", "c", "d", "e", "f", "g", "h", "i", "j", "k", "l", "m", "n",
              "o", "p", "q", "r", "s", "t", "u", "v", "w", "x", "y", "z",
              "á", "é", "í", "ó", "ú", "ñ", "ü">>
ToLower(c) == IF c \in Upper THEN LowerSeq[CHOOSE i \in 1..Len(UpperSeq) : UpperSeq[i] = c] ELSE c
Fold(t) == [i \in 1..Len(t) |-> ToLower(t[i])]

\* regexp \b between rune p and rune p + 1 of t
WordBoundary(t, p) ==
    (p >= 1 /\ p <= Len(t) /\ t[p] \in WordChar)
        # (p + 1 >= 1 /\ p + 1 <= Len(t) /\ t[p + 1] \in WordChar)

\* (?i)\b(w1|w2|...)\b matches somewhere in t
MatchesWord(t, words) ==
    \E k \in 1..Len(words) : \E i \in 1..(Len(t) - Len(words[k]) + 1) :
        /\ \A j \in 1..Len(words[k]) : ToLower(t[i + j - 1]) = words[k][j]
        /\ WordBoundary(t, i - 1)
        /\ WordBoundary(t, i + Len(words[k]) - 1)

Interrogatives ==
    <<<<"q", "u", "é">>, <<"q", "u", "i", "é", "n">>,
      <<"c", "u", "á", "n", "d", "o">>, <<"d", "ó", "n", "d", "e">>,
      <<"c", "ó", "m", "o">>, <<"p", "o", "r", " ", "q", "u", "é">>,
      <<"c", "u", "á", "l">>>>
Exclamations ==
    <<<<"w", "o", "w">>, <<"i", "n", "c", "r", "e", "í", "b", "l", "e">>,
      <<"e", "x", "c", "e", "l", "e", "n", "t", "e">>,
      <<"f", "a", "n", "t", "á", "s", "t", "i", "c", "o">>>>
Affirmations ==
    <<<<"y", "e", "s">>, <<"n", "o">>, <<"s", "i">>, <<"s", "í">>>>
Cheers ==
    <<<<"w", "o", "w">>, <<"i", "n", "c", "r", "e", "í", "b", "l", "e">>,
      <<"e", "x", "c", "e", "l", "e", "n", "t", "e">>,
      <<"f", "a", "n", "t", "á", "s", "t", "i", "c", "o">>,
      <<"b", "r", "a", "v", "o">>, <<"g", "e", "n", "i", "a", "l">>>>

\* `[\r\n\t]+` -> " "
RECURSIVE LineRuns(_)
LineRuns(str) ==
    The({LET p == IndexAny(s, {"\r", "\n", "\t"})
         IN  IF p = 0 THEN s
             ELSE SubSeq(s, 1, p - 1) \o <<" ">>
                      \o LineRuns(Drop(s, p - 1 + RunLen(Drop(s, p - 1), {"\r", "\n", "\t"})))
         : s \in {str}})

\* "if !hasEndingPunctuation { ... }" of enhanceSentenceForTTS
AddEnding(str) ==
    The({IF e[Len(e)] \in {".", "!", "?", "U+2026"} THEN e
         ELSE IF HasPrefix(e, <<"¿">>) \/ MatchesWord(e, Interrogatives) THEN Append(e, "?")
         ELSE IF HasPrefix(e, <<"¡">>) \/ MatchesWord(e, Exclamations) THEN Append(e, "!")
         ELSE Append(e, ".")
         : e \in {str}})

\* "add opening punctuation if missing" of enhanceSentenceForTTS
AddQuestionOpening(str) ==
    The({IF HasSuffix(e, <<"?">>) /\ ~Contains(e, <<"¿">>) /\ ~MatchesWord(e, Affirmations)
         THEN <<"¿">> \o e ELSE e
         : e \in {str}})
AddExclamationOpening(str) ==
    The({IF HasSuffix(e, <<"!">>) /\ ~Contains(e, <<"¡">>) /\ MatchesWord(e, Cheers)
         THEN <<"¡">> \o e ELSE e
         : e \in {str}})

\* enhanceSentenceForTTS
\* statement k of enhanceSentenceForTTS on the text e: the clean-up before
\* the test for the empty sentence (1..3), the statements after it (4..10)
EnhanceStep(k, e) ==
    CASE k = 1 -> LineRuns(e)
      [] k = 2 -> CollapseSpace(e)
      [] k = 3 -> TrimSpace(e)
      [] k = 4 -> AddEnding(e)
      [] k = 5 -> AddQuestionOpening(e)
      [] k = 6 -> AddExclamationOpening(e)
      [] k = 7 -> CollapseRuns(e, "¿")
      [] k = 8 -> CollapseRuns(e, "¡")
      [] k = 9 -> CollapseRuns(e, "?")
      [] k = 10 -> CollapseRuns(e, "!")

\* the statements a..b in order: the first half of the range, then the second half
\* on its result
RECURSIVE EnhanceRange(_, _, _)
EnhanceRange(a, b, str) ==
    IF a > b THEN str
    ELSE IF a = b THEN EnhanceStep(a, str)
    ELSE CHOOSE r \in {EnhanceRange(((a + b) \div 2) + 1, b, s)
                         : s \in {EnhanceRange(a, (a + b) \div 2, str)}} : TRUE

enhanceSentenceForTTS(sentence) ==
    The({IF e = << >> THEN e ELSE EnhanceRange(4, 10, e)
         : e \in {EnhanceRange(1, 3, sentence)}})

\* the connectives of naturalBreaksPattern, in the order of its alternation
Connectives ==
    <<<<"p", "e", "r", "o">>,
      <<"s", "i", "n", " ", "e", "m", "b", "a", "r", "g", "o">>,
      <<"a", "d", "e", "m", "á", "s">>,
      <<"p", "o", "r", " ", "t", "a", "n", "t", "o">>,
      <<"p", "o", "r", " ", "l", "o", " ", "t", "a", "n", "t", "o">>,
      <<"n", "o", " ", "o", "b", "s", "t", "a", "n", "t", "e">>,
      <<"m", "i", "e", "n", "t", "r", "a", "s">>,
      <<"c", "u", "a", "n", "d", "o">>, <<"d", "o", "n", "d", "e">>,
      <<"c", "o", "m", "o">>, <<"q", "u", "e">>, <<"s", "i">>,
      <<"a", "u", "n", "q", "u", "e">>, <<"p", "o", "r", "q", "u", "e">>,
      <<"y", "a", " ", "q", "u", "e">>,
      <<"d", "a", "d", "o", " ", "q", "u", "e">>,
      <<"p", "u", "e", "s", "t", "o", " ", "q", "u", "e">>>>

\* length in runes of the match of `(?i)[,:;]\s+(?:pero|...)` that begins at
\* rune i of s, 0 if there is none
BreakLen(s, i) ==
    LET a == After(s, i)
        hits == {c \in 1..Len(Connectives) :
                    /\ a + Len(Connectives[c]) - 1 <= Len(s)
                    /\ \A j \in 1..Len(Connectives[c]) : ToLower(s[a + j - 1]) = Connectives[c][j]}
    IN  IF s[i] \in {",", ":", ";"} /\ a > i + 1 /\ hits # {}
        THEN a - i + Len(Connectives[Least(hits)]) ELSE 0

\* naturalBreaksPattern.Split(sentence, -1)
RECURSIVE SplitBreaks(_, _)
SplitBreaks(str, parts0) ==
    The({LET hits == {i \in 1..Len(s) : BreakLen(s, i) > 0}
             p == Least(hits)
         IN  IF hits = {} THEN Append(parts, s)
             ELSE SplitBreaks(Drop(s, p - 1 + BreakLen(s, p)), Append(parts, SubSeq(s, 1, p - 1)))
         : s \in {str}, parts \in {parts0}})

\* the loop of splitLongSentence over parts and its last chunk
RECURSIVE Chunks(_, _, _, _)
Chunks(parts, k, chunk0, chunks0) ==
    The({LET closed == IF TrimSpace(currentChunk) # << >>
                       THEN Append(chunks, enhanceSentenceForTTS(TrimSpace(currentChunk)))
                       ELSE chunks
         IN  IF k > Len(parts) THEN closed
             ELSE IF Len(currentChunk) > 0 /\ ByteLen(currentChunk \o parts[k]) > 200
             THEN Chunks(parts, k + 1, parts[k], closed)
             ELSE Chunks(parts, k + 1, currentChunk \o parts[k], chunks)
         : currentChunk \in {chunk0}, chunks \in {chunks0}})

\* splitLongSentence
splitLongSentence(sentence) ==
    The({IF Len(chunks) = 0 THEN <<sentence>> ELSE chunks
         : chunks \in {The({Chunks(parts, 1, << >>, << >>)
                              : parts \in {SplitBreaks(sentence, << >>)}})}})

\* number of matches of `\b\w+\b`: the maximal runs of word runes
wordCount(t) ==
    Cardinality({i \in 1..Len(t) : t[i] \in WordChar /\ (i = 1 \/ t[i - 1] \notin WordChar)})

\* the test of mergeShortFragments for a short fragment
IsShort(sentence) == wordCount(sentence) < 4 /\ ByteLen(sentence) < 30

\* the loop of mergeShortFragments from sentences[i] on (i counts from 1)
RECURSIVE MergeLoop(_, _, _)
MergeLoop(sents, i, merged0) ==
    The({IF i > Len(sents) THEN out
         ELSE IF IsShort(sents[i])
         THEN IF Len(out) > 0
              THEN MergeLoop(sents, i + 1,
                             [out EXCEPT ![Len(out)] = @ \o <<" ">> \o sents[i]])
              ELSE IF i + 1 <= Len(sents)
              THEN MergeLoop(sents, i + 2, Append(out, sents[i] \o <<" ">> \o sents[i + 1]))
              ELSE MergeLoop(sents, i + 1, Append(out, sents[i]))
         ELSE MergeLoop(sents, i + 1, Append(out, sents[i]))
         : out \in {merged0}})

\* A merge step that emits every sentence as it is.
mergeNothing(sents) == sents

mergeShortFragments(sents) == MergeLoop(sents, 1, << >>)

\* the loop "process and clean sentences" of splitSentences (part_000:292-311)
\* the iteration for sents[i] (i counts from 1)
ProcessStep(sents, i, processedSentences) ==
    The({IF ByteLen(sentence) > 3
         THEN IF ByteLen(sentence) > 400
              THEN processedSentences \o splitLongSentence(sentence)
              ELSE Append(processedSentences, sentence)
         ELSE processedSentences
         : sentence \in {The({enhanceSentenceForTTS(restored)
                                : restored \in {Restore(sents[i], 1)}})}})
\* the iterations a..b in order: the first half of the range, then the second half
\* on its result
RECURSIVE ProcessRange(_, _, _, _)
ProcessRange(sents, a, b, processed) ==
    IF a > b THEN processed
    ELSE IF a = b THEN ProcessStep(sents, a, processed)
    ELSE CHOOSE r \in {ProcessRange(sents, ((a + b) \div 2) + 1, b, p)
                         : p \in {ProcessRange(sents, a, (a + b) \div 2, processed)}} : TRUE
\* from sents[k] on, processedSentences being processed0
Process(sents, k, processed0) == ProcessRange(sents, k, Len(sents), processed0)

\* the sentences the scan extracts, before they are restored and enhanced
extracted(t) ==
    The({The({Scan(protectedText, 1, 1, << >>) : protectedText \in {Protect(normalized0, 1)}})
         : normalized0 \in {normalizeTextForTTS(t)}})

\* splitSentences
splitSentences(t) ==
    IF TrimSpace(t) = << >> THEN << >>
    ELSE The({mergeShortFragments(processed)
                : processed \in {The({Process(sents, 1, << >>) : sents \in {extracted(t)}})}})

\* A caller applies normalizeTextForTTS to a text.
NormalizeText ==
    /\ tpc = "text"
    /\ normalized' = normalizeTextForTTS(text)
    /\ tpc' = "normalized"
    /\ UNCHANGED <<text, renormalized, sentences, fragments, merged>>
    /\ UNCHANGED otherThanText

\* The caller applies normalizeTextForTTS to that result.
NormalizeAgain ==
    /\ tpc = "normalized"
    /\ renormalized' = normalizeTextForTTS(normalized)
    /\ tpc' = "renormalized"
    /\ UNCHANGED <<text, normalized, sentences, fragments, merged>>
    /\ UNCHANGED otherThanText

\* A caller applies splitSentences to a text.
SplitSentences ==
    /\ tpc = "text"
    /\ text # << >>
    /\ sentences' = splitSentences(text)
    /\ tpc' = "split"
    /\ UNCHANGED <<text, normalized, renormalized, fragments, merged>>
    /\ UNCHANGED otherThanText

\* The loop of splitSentences hands a sentence of more than 400 bytes to
\* splitLongSentence (part_000:302-304).
SplitLongSentence ==
    /\ tpc = "text"
    /\ ByteLen(text) > 400
    /\ sentences' = splitLongSentence(text)
    /\ tpc' = "chunked"
    /\ UNCHANGED <<text, normalized, renormalized, fragments, merged>>
    /\ UNCHANGED otherThanText

\* A caller applies mergeShortFragments to a sentence list.
MergeShortFragments ==
    /\ tpc = "text"
    /\ fragments # << >>
    /\ merged' = mergeShortFragments(fragments)
    /\ tpc' = "merged"
    /\ UNCHANGED <<text, normalized, renormalized, sentences, fragments>>
    /\ UNCHANGED otherThanText

\* ---- filterTextSegment and its helpers
\* the class [.!?¿¡\x{2026}] of processLineBreaks
BreakMarks == {".", "!", "?", "¿", "¡", "U+2026"}
\* the class [a-zA-Z]
AsciiLetter == WordChar \ (Digit \cup {"_"})
\* the backtick, written by its code point, and the three backticks of a code fence
Backtick == "U+0060"
Fence == <<Backtick, Backtick, Backtick>>

\* where the match of the code block pattern that begins at rune i of s ends
\* (three backticks, runes other than backtick and line feed, a line feed,
\* then as little as possible up to three backticks): the index of its last
\* backtick, 0 if there is no match
FenceEnd(s, i) ==
    LET stops == {j \in (i + 3)..Len(s) : s[j] \in {Backtick, "\n"}}
        n == IF stops = {} THEN 0 ELSE Least(stops)
        closes == {j \in (n + 1)..(Len(s) - 2) : SubSeq(s, j, j + 2) = Fence}
    IN  IF SubSeq(s, i, i + 2) = Fence /\ n > 0 /\ s[n] = "\n" /\ closes # {}
        THEN Least(closes) + 2
        ELSE 0

\* filterCodeBlocks
RECURSIVE filterCodeBlocks(_)
filterCodeBlocks(str) ==
    The({LET hits == {i \in 1..(Len(s) - 2) : FenceEnd(s, i) > 0}
             p == Least(hits)
         IN  IF hits = {} THEN s
             ELSE SubSeq(s, 1, p - 1) \o filterCodeBlocks(Drop(s, FenceEnd(s, p)))
         : s \in {str}})

\* the line feeds in the whitespace that follows rune i of s
FeedsAfter(s, i) == {j \in (i + 1)..(i + RunLen(Drop(s, i), Space)) : s[j] = "\n"}

\* `([.!?¿¡\x{2026}])\s*\n` -> "$1 "
RECURSIVE MarkBreaks(_)
MarkBreaks(str) ==
    The({LET hits == {i \in 1..Len(s) : s[i] \in BreakMarks /\ FeedsAfter(s, i) # {}}
             p == Least(hits)
         IN  IF hits = {} THEN s
             ELSE SubSeq(s, 1, p) \o <<" ">> \o MarkBreaks(Drop(s, Greatest(FeedsAfter(s, p))))
         : s \in {str}})

\* `([^.!?¿¡\x{2026}])\s*\n\s*([A-ZÁÉÍÓÚÑÜ])` -> "$1. $2"
RECURSIVE UpperBreaks(_)
UpperBreaks(str) ==
    The({LET hits == {i \in 1..Len(s) :
                         /\ s[i] \notin BreakMarks
                         /\ FeedsAfter(s, i) # {}
                         /\ After(s, i) > 0
                         /\ s[After(s, i)] \in Upper}
             p == Least(hits)
             a == After(s, p)
         IN  IF hits = {} THEN s
             ELSE SubSeq(s, 1, p) \o <<".", " ", s[a]>> \o UpperBreaks(Drop(s, a))
         : s \in {str}})

\* `([a-zA-Z])\s*:\s*` -> "$1: "
RECURSIVE LetterColon(_)
LetterColon(str) ==
    The({LET hits == {i \in 1..Len(s) :
                         s[i] \in AsciiLetter /\ After(s, i) > 0 /\ s[After(s, i)] = ":"}
             p == Least(hits)
             c == After(s, p)
         IN  IF hits = {} THEN s
             ELSE SubSeq(s, 1, p) \o <<":", " ">>
                      \o LetterColon(Drop(s, c + RunLen(Drop(s, c), Space)))
         : s \in {str}})

\* `\.{3,}` -> "..."
RECURSIVE Ellipses(_)
Ellipses(str) ==
    The({LET hits == {i \in 1..(Len(s) - 2) : SubSeq(s, i, i + 2) = <<".", ".", ".">>}
             p == Least(hits)
         IN  IF hits = {} THEN s
             ELSE SubSeq(s, 1, p + 2) \o Ellipses(Drop(s, p - 1 + RunLen(Drop(s, p - 1), {"."})))
         : s \in {str}})

\* processLineBreaks
\* statement k of processLineBreaks on the text s
LineBreakStep(k, s) ==
    CASE k = 1 -> ParagraphBreaks(s)
      [] k = 2 -> MarkBreaks(s)
      [] k = 3 -> UpperBreaks(s)
      [] k = 4 -> ReplaceAll(s, <<"\n">>, <<" ">>)
      [] k = 5 -> CollapseSpace(s)
      [] k = 6 -> TrimSpace(s)
      [] k = 7 -> LetterColon(s)
      [] k = 8 -> DotRuns(s)
      [] k = 9 -> ReplaceAll(s, <<".", ".">>, <<".">>)
      [] k = 10 -> Ellipses(s)

\* the statements a..b in order: the first half of the range, then the second half
\* on its result
RECURSIVE LineBreakRange(_, _, _)
LineBreakRange(a, b, str) ==
    IF a > b THEN str
    ELSE IF a = b THEN LineBreakStep(a, str)
    ELSE CHOOSE r \in {LineBreakRange(((a + b) \div 2) + 1, b, s)
                         : s \in {LineBreakRange(a, (a + b) \div 2, str)}} : TRUE

processLineBreaks(str) == LineBreakRange(1, 10, str)

\* `(?i)\b` + QuoteMeta(find) -> replace, with a closing `\b` when `closed`:
\* the text from rune from0 of s on, with every match replaced
RECURSIVE ReplacePattern(_, _, _, _, _)
ReplacePattern(s, from0, find, replace, closed) ==
    The({LET hits == {i \in from..(Len(s) - Len(find) + 1) :
                         /\ Fold(SubSeq(s, i, i + Len(find) - 1)) = Fold(find)
                         /\ WordBoundary(s, i - 1)
                         /\ closed => WordBoundary(s, i + Len(find) - 1)}
             p == Least(hits)
         IN  IF hits = {} THEN Drop(s, from - 1)
             ELSE SubSeq(s, from, p - 1) \o replace
                      \o ReplacePattern(s, p + Len(find), find, replace, closed)
         : from \in {from0}})

\* the loop of applyReplacements from replacements[k] on (k counts from 1);
\* a find that ends in a period gets no closing `\b`, every other find does
RECURSIVE ReplacementLoop(_, _, _)
ReplacementLoop(str, replacements, k) ==
    The({IF k > Len(replacements) THEN processedText
         ELSE IF Len(replacements[k]) < 2 \/ replacements[k][1] = << >>
         THEN ReplacementLoop(processedText, replacements, k + 1)
         ELSE ReplacementLoop(
                  ReplacePattern(processedText, 1, replacements[k][1], replacements[k][2],
                                 ~HasSuffix(replacements[k][1], <<".">>)),
                  replacements, k + 1)
         : processedText \in {str}})

\* applyReplacements
applyReplacements(str, replacements) ==
    IF str = << >> \/ Len(replacements) = 0 THEN str
    ELSE ReplacementLoop(str, replacements, 1)

\* filterTextSegment
filterTextSegment(textSegment, modelReplacements) ==
    The({TrimSpace(CollapseSpace(
             IF Len(modelReplacements) > 0 THEN applyReplacements(t, modelReplacements) ELSE t))
         : t \in {processLineBreaks(filterCodeBlocks(textSegment))}})

\* parseModelCard: the replacements of a model whose card lists none
DefaultReplacements ==
    <<<<<<"\n">>, <<" ", ".", " ">>>>, <<<<"*">>, << >>>>, <<<<")">>, <<",">>>>>>

\* ------------------------------------------------------ audio_native.go
\* A WAV file: its header fields and its samples.
Wav(rate, channels, bits, data) ==
    [kind |-> "wav", SampleRate |-> rate, NumChannels |-> channels,
     BitsPerSample |-> bits, Data |-> data]
\* a file that os.Open opens and that is no valid WAV file
NotWav == [kind |-> "invalid", SampleRate |-> 0, NumChannels |-> 0, BitsPerSample |-> 0, Data |-> << >>]

\* the errors of concatenateAudioNative
NoFilesError == "no audio files to concatenate"
ReadFirstError == "error reading first file"
ReadError == "error reading file"
MismatchError == "audio format mismatch"
CreateError == "error creating WAV file"
WriteError == "error writing WAV data"

\* readWAVFile(path) returns no error
Readable(d, path) == d[path].kind = "wav"
\* the WAVHeader readWAVFile returns
Header(file) ==
    [SampleRate |-> file.SampleRate, NumChannels |-> file.NumChannels,
     BitsPerSample |-> file.BitsPerSample]

\* A format test that looks at the sample rate only.
MismatchSampleRate(fileHeader, header) == fileHeader.SampleRate # header.SampleRate

\* "verify format matches"
Mismatch(fileHeader, header) ==
    \/ fileHeader.SampleRate # header.SampleRate
    \/ fileHeader.NumChannels # header.NumChannels
    \/ fileHeader.BitsPerSample # header.BitsPerSample

\* Data put in front of the combined data.
PrependData(combinedData, data) == data \o combinedData

\* combinedData = append(combinedData, buffer.Data...)
AppendData(combinedData, data) == combinedData \o data

\* "read and append remaining files": the loop from audioFiles[i] on
RECURSIVE ReadLoop(_, _, _, _, _)
ReadLoop(files, d, i, header, combined0) ==
    The({IF i > Len(files) THEN [err |-> NilError, Data |-> combinedData]
         ELSE IF ~Readable(d, files[i]) THEN [err |-> ReadError, Data |-> << >>]
         ELSE IF Mismatch(Header(d[files[i]]), header)
         THEN [err |-> MismatchError, Data |-> << >>]
         ELSE ReadLoop(files, d, i + 1, header, AppendData(combinedData, d[files[i]].Data))
         : combinedData \in {combined0}})

\* what writeWAVFile may do: write the file, fail in os.Create (no file is
\* made), or fail in the encoder after os.Create made the file
WriteOutcomes == {"written", "create fails", "write fails"}
writeWAVFile(w, old, data, header) ==
    IF w = "create fails" THEN [err |-> CreateError, file |-> old]
    ELSE IF w = "write fails" THEN [err |-> WriteError, file |-> NotWav]
    ELSE [err |-> NilError,
          file |-> Wav(header.SampleRate, header.NumChannels, header.BitsPerSample, data)]

\* A clean-up that removes nothing.
KeepFiles(d, files) == d

\* "clean up individual files": os.Remove of every input path
CleanUp(d, files) == [f \in DOMAIN d |-> IF f \in Range(files) THEN Missing ELSE d[f]]

\* concatenateAudioNative(audioFiles, outputPath): the error it returns and
\* the files it leaves, on the disk d with the file `old` at outputPath
concatenateAudioNative(files, d, old, w) ==
    IF Len(files) = 0 THEN [err |-> NoFilesError, disk |-> d, output |-> old]
    ELSE IF ~Readable(d, files[1]) THEN [err |-> ReadFirstError, disk |-> d, output |-> old]
    ELSE The({IF loop.err # NilError THEN [err |-> loop.err, disk |-> d, output |-> old]
              ELSE The({IF wr.err # NilError
                        THEN [err |-> wr.err, disk |-> d, output |-> wr.file]
                        ELSE [err |-> NilError, disk |-> CleanUp(d, files), output |-> wr.file]
                        : wr \in {writeWAVFile(w, old, loop.Data, Header(d[files[1]]))}})
              : loop \in {ReadLoop(files, d, 2, Header(d[files[1]]), d[files[1]].Data)}})

\* A caller runs concatenateAudioNative on the files at concatFiles.
ConcatenateAudioNative ==
    /\ cpc = "ready"
    /\ \E w \in WriteOutcomes :
          LET r == concatenateAudioNative(concatFiles, disk, output, w)
          IN  /\ cerr' = r.err
              /\ disk' = r.disk
              /\ output' = r.output
    /\ cpc' = "returned"
    /\ UNCHANGED concatFiles
    /\ UNCHANGED otherThanConcat

\* ------------------------------------------------------- specification
\* The goroutines of the queue and of the batch that are already under way:
\* every step but a new submission, a new batch or a capacity change.
System ==
    \/ processQueue /\ UNCHANGED handlerVars
    \/ \E t \in Sentences : TaskExecute(t) /\ UNCHANGED handlerVars
    \/ \E t \in Sentences : TaskExit(t) /\ UNCHANGED handlerVars
    \/ \E i \in Sentences : AddReturn(i) /\ UNCHANGED handlerVars
    \/ generateAudioParallelReturn /\ UNCHANGED handlerVars

\* The server: POST /settings calls SetMaxConcurrent, POST /convert calls
\* generateAudioParallel, whose goroutines call Add.
Next ==
    \/ \E max \in CapRequests : setCalls < MaxSetCalls /\ SetMaxConcurrent(max) /\ UNCHANGED handlerVars
    \/ \E n \in 1..MaxSentences : generateAudioParallelStart(n) /\ UNCHANGED handlerVars
    \/ \E i \in Sentences : Add(i) /\ UNCHANGED handlerVars
    \/ System

Spec == Init /\ [][Next]_vars

\* The same server with a batch of up to LargeSentences sentences and up to
\* LargeSetCalls capacity changes.
NextLarge ==
    \/ \E max \in CapRequests : setCalls < LargeSetCalls /\ SetMaxConcurrent(max) /\ UNCHANGED handlerVars
    \/ \E n \in 1..LargeSentences : generateAudioParallelStart(n) /\ UNCHANGED handlerVars
    \/ \E i \in Sentences : Add(i) /\ UNCHANGED handlerVars
    \/ System

SpecLarge == Init /\ [][NextLarge]_vars


\* The program on a single-core host (capacity 2) with at most one capacity
\* change, to 1 or to 32.  The Go scheduler runs every runnable goroutine and
\* every task's work ends, so the goroutines under way do not stop while one
\* of them can take a step; submissions and capacity changes may stop coming.
FairCapRequests == {0, 33}
InitFair == cpuCores = 1 /\ Init
NextFair ==
    \/ \E max \in FairCapRequests : setCalls < 1 /\ SetMaxConcurrent(max) /\ UNCHANGED handlerVars
    \/ \E n \in 1..MaxSentences : generateAudioParallelStart(n) /\ UNCHANGED handlerVars
    \/ \E i \in Sentences : Add(i) /\ UNCHANGED handlerVars
    \/ System
SpecFair == InitFair /\ [][NextFair]_vars /\ WF_vars(System)

\* One POST /convert on a single-core host whose settings are left alone: a
\* batch of up to LargeSentences sentences.
NextBatch ==
    \/ \E n \in 1..LargeSentences : generateAudioParallelStart(n) /\ UNCHANGED handlerVars
    \/ \E i \in Sentences : Add(i) /\ UNCHANGED handlerVars
    \/ System

SpecBatch == InitFair /\ [][NextBatch]_vars

\* The same batch while POST /settings lowers the capacity once, from 2 to 1
\* (it asks for 0, which the clamp makes 1), with the scheduling of SpecFair.
LowerCapRequests == {0}
NextThrottle ==
    \/ \E max \in LowerCapRequests : setCalls < 1 /\ SetMaxConcurrent(max) /\ UNCHANGED handlerVars
    \/ NextBatch

SpecThrottle == InitFair /\ [][NextThrottle]_vars /\ WF_vars(System)

\* The text functions on their own, on a single-core host with an idle queue.
RECURSIVE Strings(_, _)
Strings(A, n) ==
    IF n = 0 THEN {<< >>}
    ELSE Strings(A, n - 1) \cup {Append(w, c) : w \in Strings(A, n - 1), c \in A}

InitIdle ==
    /\ cpuCores = 1
    /\ requested = cpuCores * 2
    /\ MaxConcurrent = NewProcessQueue(requested)
    /\ InitRest

InitText(inputs) ==
    /\ InitIdle
    /\ NoConcat
    /\ NoConvert
    /\ NoSettingsRequest
    /\ text \in inputs
    /\ tpc = "text"
    /\ normalized = << >>
    /\ renormalized = << >>
    /\ sentences = << >>
    /\ fragments = << >>
    /\ merged = << >>

\* normalizeTextForTTS on every text of up to MaxTextLen runes that mixes
\* whitespace, letters and the marks.
NormalizeAlphabet == {" ", "a", "A", "¿", "¡", "?", "!", ".", ":"}
InitNormalize == InitText(Strings(NormalizeAlphabet, MaxTextLen))
NextNormalize == NormalizeText \/ NormalizeAgain
SpecNormalize == InitNormalize /\ [][NextNormalize]_vars

TextDrSmith ==
    <<"D", "r", ".", " ", "S", "m", "i", "t", "h", " ", "l", "l", "e", "g",
      "ó", ".", " ", "S", "e", " ", "f", "u", "e", ".">>
TextHelloWorld ==
    <<"H", "e", "l", "l", "o", " ", "w", "o", "r", "l", "d", ".", " ", "T",
      "h", "i", "s", " ", "i", "s", " ", "g", "r", "e", "a", "t", "!", " ",
      "A", "r", "e", " ", "y", "o", "u", " ", "s", "u", "r", "e", "?">>

\* Texts that hold each listed abbreviation before a capitalised name: in a
\* statement, and in a question that opens with the inverted mark.
StatementHead ==
    <<"V", "i", "n", "o", " ", "e", "l", " ">>
StatementTail ==
    <<" ", "S", "m", "i", "t", "h", " ", "a", "y", "e", "r", " ", "p", "o",
      "r", " ", "l", "a", " ", "t", "a", "r", "d", "e", ".", " ", "S", "e",
      " ", "f", "u", "e", " ", "p", "r", "o", "n", "t", "o", " ", "a", " ",
      "s", "u", " ", "c", "a", "s", "a", ".">>
QuestionHead ==
    <<"¿", "V", "i", "n", "o", " ", "a", "y", "e", "r", " ", "p", "o", "r",
      " ", "l", "a", " ", "t", "a", "r", "d", "e", " ", "e", "l", " ">>
QuestionTail ==
    <<" ", "S", "m", "i", "t", "h", " ", "c", "o", "n", " ", "s", "u", " ",
      "f", "a", "m", "i", "l", "i", "a", "?", " ", "N", "a", "d", "i", "e",
      " ", "l", "o", " ", "s", "a", "b", "e", " ", "t", "o", "d", "a", "v",
      "í", "a", " ", "h", "o", "y", ".">>

AbbreviationTexts ==
    {StatementHead \o abbreviations[k] \o StatementTail : k \in 1..Len(abbreviations)}
        \cup {QuestionHead \o abbreviations[k] \o QuestionTail : k \in 1..Len(abbreviations)}

\* splitSentences on the two texts of the spec's examples and on the
\* abbreviation texts.
InitSplit == InitText({TextDrSmith, TextHelloWorld} \cup AbbreviationTexts)
NextSplit == SplitSentences
SpecSplit == InitSplit /\ [][NextSplit]_vars

\* Long sentences: up to MaxStretches stretches of plain words, of 140, 180
\* or 220 characters each, joined by a clause break (", pero ") or by a
\* conjunction that is none (" y "), and ended by a period.
MaxStretches == 3
StretchWords == <<"l", "a", " ", "c", "a", "s", "a", " ", "e", "s", " ", "b", "l", "a", "n", "c", "a", " ">>
StretchLens == {140, 180, 220}
Stretch(n) == [k \in 1..n |-> StretchWords[((k - 1) % Len(StretchWords)) + 1]]
Joiners == {<<",", " ", "p", "e", "r", "o", " ">>, <<" ", "y", " ">>}
RECURSIVE Stretches(_)
Stretches(n) ==
    IF n = 1 THEN {Stretch(len) : len \in StretchLens}
    ELSE {s \o j \o Stretch(len) : s \in Stretches(n - 1), j \in Joiners, len \in StretchLens}
LongSentences ==
    {s \o <<".">> : s \in UNION {Stretches(n) : n \in 2..MaxStretches}}

\* splitLongSentence on every such sentence of more than 400 bytes.
InitLong == InitText({s \in LongSentences : ByteLen(s) > 400})
NextLong == SplitLongSentence
SpecLong == InitLong /\ [][NextLong]_vars

\* Sentences for mergeShortFragments: one of six words; one of four words and
\* 20 characters; two of two words; and one of three words and 16
\* characters, two of which have a letter outside a-z.
SentenceLarga ==
    <<"E", "s", "t", "a", " ", "e", "s", " ", "u", "n", "a", " ", "f", "r",
      "a", "s", "e", " ", "b", "a", "s", "t", "a", "n", "t", "e", " ", "l",
      "a", "r", "g", "a", ".">>
SentenceCuatro ==
    <<"U", "n", "o", " ", "d", "o", "s", " ", "t", "r", "e", "s", " ", "c",
      "u", "a", "t", "r", "o", ".">>
SentenceSeFue ==
    <<"S", "e", " ", "f", "u", "e", ".">>
SentenceHola ==
    <<"H", "o", "l", "a", " ", "m", "u", "n", "d", "o", ".">>
SentencePequeno ==
    <<"E", "l", " ", "n", "i", "ñ", "o", " ", "p", "e", "q", "u", "e", "ñ",
      "o", ".">>
FragmentPool == {SentenceLarga, SentenceCuatro, SentenceSeFue, SentenceHola, SentencePequeno}

\* mergeShortFragments on every list of one to MaxFragments of these sentences.
InitMerge ==
    /\ InitIdle
    /\ NoConcat
    /\ NoConvert
    /\ NoSettingsRequest
    /\ text = << >>
    /\ tpc = "text"
    /\ normalized = << >>
    /\ renormalized = << >>
    /\ sentences = << >>
    /\ fragments \in Strings(FragmentPool, MaxFragments) \ {<< >>}
    /\ merged = << >>
NextMerge == MergeShortFragments
SpecMerge == InitMerge /\ [][NextMerge]_vars

\* The formats of the files: one, and three that differ from it in the
\* sample rate, in the channel count and in the bit depth.
Formats ==
    {<<22050, 1, 16>>, <<44100, 1, 16>>, <<22050, 2, 16>>, <<22050, 1, 8>>}
\* the samples of the file at path f: f samples that no other file has
Samples(f) == [k \in 1..f |-> 10 * f + k]
\* what may be at path f: a WAV file of one of the formats, a file that is
\* no WAV file, or nothing
FilesAt(f) == {Wav(fm[1], fm[2], fm[3], Samples(f)) : fm \in Formats} \cup {NotWav, Missing}

\* concatenateAudioNative on the paths 1..n, n up to MaxFiles, with any files
\* at these paths and no file at outputPath.
InitConcat ==
    /\ InitIdle
    /\ NoText
    /\ NoConvert
    /\ NoSettingsRequest
    /\ \E n \in 0..MaxFiles :
          /\ concatFiles = [i \in 1..n |-> i]
          /\ disk \in [Paths -> UNION {FilesAt(f) : f \in Paths}]
          /\ \A f \in Paths : disk[f] \in (IF f <= n THEN FilesAt(f) ELSE {Missing})
    /\ output = Missing
    /\ cpc = "ready"
    /\ cerr = NilError
NextConcat == ConcatenateAudioNative
SpecConcat == InitConcat /\ [][NextConcat]_vars

\* ------------------------------------- handlers (unnamed/part_001, main.go)
\* availableModels: one model, whose card lists no replacements and so has
\* the default ones
KnownModel == "voice.onnx"
UnknownModel == "other.onnx"
availableModels == <<[OnnxPath |-> KnownModel, Replacements |-> DefaultReplacements]>>

\* findModelByPath: <<model>>, or << >> beside the error "model not found"
findModelByPath(onnxPath) ==
    LET found == {i \in 1..Len(availableModels) : availableModels[i].OnnxPath = onnxPath}
    IN  IF found = {} THEN << >> ELSE <<availableModels[Least(found)]>>

\* errorResponse(w, message, statusCode)
errorResponse(message, statusCode) ==
    [status |-> statusCode, success |-> FALSE, error |-> message]
\* the response of a finished conversion
audioResponse == [status |-> 200, success |-> TRUE, error |-> ""]

\* A handler without the MAX_TEXT check.
TooLongNever(t, max) == FALSE

\* "Check MAX_TEXT limit if set"
TooLong(t, max) == max > 0 /\ ByteLen(t) > max

\* convertHandler, the checks of the request: <<the error response>>, or
\* << >> when the request passes them
Validate(req, max) ==
    IF ~req.decodes THEN <<errorResponse("Invalid request body", 400)>>
    ELSE IF req.Text = << >> THEN <<errorResponse("Text is required", 400)>>
    ELSE IF TooLong(req.Text, max)
    THEN <<errorResponse("Text exceeds maximum length", 400)>>
    ELSE IF req.ModelPath = "" THEN <<errorResponse("Model path is required", 400)>>
    ELSE IF findModelByPath(req.ModelPath) = << >>
    THEN <<errorResponse("Model not found", 404)>>
    ELSE << >>

\* A handler that takes every sentence list, the empty one too.
NoSentencesNever(sents) == FALSE

\* len(sentences) == 0
NoSentences(sents) == Len(sents) = 0

\* convertHandler, the text work on a request that passed the checks: the
\* error response of a text that leaves nothing to say, or validSentences
Segment(req) ==
    The({IF processedText = << >>
         THEN [rejected |-> <<errorResponse("Text became empty after processing", 400)>>,
               validSentences |-> << >>]
         ELSE The({IF NoSentences(sents)
                   THEN [rejected |-> <<errorResponse("No valid sentences found in text", 400)>>,
                         validSentences |-> << >>]
                   ELSE [rejected |-> << >>,
                         validSentences |-> SelectSeq(sents, LAMBDA s : s # << >>)]
                   : sents \in {splitSentences(processedText)}})
         : processedText \in
               {filterTextSegment(req.Text, findModelByPath(req.ModelPath)[1].Replacements)}})

\* convertHandler up to the call of generateAudioParallel.
ConvertHandler ==
    /\ hpc = "ready"
    /\ IF Validate(request, maxTextLength) # << >>
       THEN /\ response' = Validate(request, maxTextLength)[1]
            /\ hpc' = "responded"
            /\ UNCHANGED validSentences
       ELSE LET seg == The({x : x \in {Segment(request)}})
            IN  IF seg.rejected # << >>
                THEN /\ response' = seg.rejected[1]
                     /\ hpc' = "responded"
                     /\ UNCHANGED validSentences
                ELSE /\ validSentences' = seg.validSentences
                     /\ hpc' = "generate"
                     /\ UNCHANGED response
    /\ UNCHANGED <<request, maxTextLength>>
    /\ UNCHANGED <<cpuCores, queueVars, batchVars, workVars, pureVars, settingsVars, lockVars>>

\* convertHandler calls generateAudioParallel(validSentences, ...).
ConvertGenerate ==
    /\ hpc = "generate"
    /\ generateAudioParallelStart(Len(validSentences))
    /\ hpc' = "synthesizing"
    /\ UNCHANGED <<request, maxTextLength, response, validSentences>>
    /\ UNCHANGED <<settingsVars, lockVars>>

\* the file Piper wrote under the name f
PiperWav(f) == Wav(22050, 1, 16, Samples(f))
\* the temp directory as concatenateAudioNative finds it
TempDir(files) == [f \in Paths |-> IF f \in files THEN PiperWav(f) ELSE Missing]

\* convertHandler after generateAudioParallel returned: an error response,
\* or the one audio file or the concatenation of the files is read, removed
\* (defer os.Remove) and sent.
ConvertRespond ==
    /\ hpc = "synthesizing"
    /\ gpc = "returned"
    /\ IF ret.err # NoError
       THEN response' = errorResponse("error processing sentence", 500) /\ UNCHANGED fs
       ELSE IF Len(ret.audioFiles) = 0
       THEN response' = errorResponse("Failed to generate any audio", 500) /\ UNCHANGED fs
       ELSE IF Len(ret.audioFiles) = 1
       THEN IF ret.audioFiles[1] \in fs
            THEN response' = audioResponse /\ fs' = fs \ {ret.audioFiles[1]}
            ELSE response' = errorResponse("error reading audio file", 500) /\ UNCHANGED fs
       ELSE \E w \in WriteOutcomes :
              LET r == The({x : x \in {concatenateAudioNative(ret.audioFiles, TempDir(fs), Missing, w)}})
              IN  IF r.err # NilError
                  THEN response' = errorResponse("audio concatenation failed", 500) /\ UNCHANGED fs
                  ELSE response' = audioResponse /\ fs' = {f \in fs : r.disk[f] # Missing}
    /\ hpc' = "responded"
    /\ UNCHANGED <<request, maxTextLength, validSentences>>
    /\ UNCHANGED <<cpuCores, queueVars, batchVars, worker, item, outcome, pureVars, settingsVars, lockVars>>

\* The texts of the requests: empty, blank, too short for a sentence, a code
\* block alone, one sentence, two sentences.
TextBlank == <<" ">>
TextAb == <<"a", "b">>
TextCodeBlock ==
    <<Backtick, Backtick, Backtick, "g", "o", "\n", "x", " ", ":", "=", " ", "1", "\n",
      Backtick, Backtick, Backtick>>
TextTwoSentences ==
    <<"U", "n", "o", " ", "d", "o", "s", " ", "t", "r", "e", "s", " ", "c", "u", "a", "t",
      "r", "o", ".", " ", "C", "i", "n", "c", "o", " ", "s", "e", "i", "s", " ", "s", "i",
      "e", "t", "e", " ", "o", "c", "h", "o", ".">>
ConvertTexts == {<< >>, TextBlank, TextAb, TextCodeBlock, TextHelloWorld, TextTwoSentences}
\* MAX_TEXT: not set, and a ceiling between the short and the long texts
TextCeilings == {0, 5}
Requests ==
    [decodes : BOOLEAN, Text : ConvertTexts, ModelPath : {"", KnownModel, UnknownModel}]

\* One POST /convert request on a single-core host with an idle queue.
InitConvert ==
    /\ InitIdle
    /\ NoText
    /\ NoConcat
    /\ NoSettingsRequest
    /\ request \in Requests
    /\ maxTextLength \in TextCeilings
    /\ response = NoResponse
    /\ hpc = "ready"
    /\ validSentences = << >>
NextConvert ==
    \/ ConvertHandler
    \/ ConvertGenerate
    \/ \E i \in Sentences : Add(i) /\ UNCHANGED handlerVars
    \/ System
    \/ ConvertRespond
SpecConvert == InitConvert /\ [][NextConvert]_vars

\* ---- updateSettingsHandler.  userSettings is a plain global that every
\* request's goroutine reads and writes without a lock, so the handler is
\* taken statement by statement and requests may overlap.
\* the clamp of the handler
ClampThreads(maxThreads) ==
    LET m1 == IF maxThreads < 1 THEN 1 ELSE maxThreads
    IN  IF m1 > 32 THEN 32 ELSE m1

\* requestData.MaxThreads != nil && *requestData.MaxThreads > 0
HasMaxThreads(body) == body.MaxThreads # << >> /\ body.MaxThreads[1] > 0

\* what a statement of the handler that calls nothing leaves alone
settingsFrame == <<cpuCores, queueVars, batchVars, workVars, pureVars, convertVars, lockVars>>

\* if requestData.AutoDetectThreads != nil { userSettings.AutoDetectThreads = ... }
SettingsAuto(h) ==
    /\ spc[h] = "start"
    /\ userSettings' =
          IF sreq[h].AutoDetectThreads # << >>
          THEN [userSettings EXCEPT !.AutoDetectThreads = sreq[h].AutoDetectThreads[1]]
          ELSE userSettings
    /\ spc' = [spc EXCEPT ![h] = "max"]
    /\ UNCHANGED <<sreq, sresp>>
    /\ UNCHANGED settingsFrame

\* if requestData.MaxThreads != nil && ... > 0 { ...; userSettings.MaxThreads = maxThreads
SettingsMax(h) ==
    /\ spc[h] = "max"
    /\ IF HasMaxThreads(sreq[h])
       THEN /\ userSettings' =
                  [userSettings EXCEPT !.MaxThreads = ClampThreads(sreq[h].MaxThreads[1])]
            /\ spc' = [spc EXCEPT ![h] = "manual"]
       ELSE /\ UNCHANGED userSettings
            /\ spc' = [spc EXCEPT ![h] = "auto"]
    /\ UNCHANGED <<sreq, sresp>>
    /\ UNCHANGED settingsFrame

\* if !userSettings.AutoDetectThreads { processQueue.SetMaxConcurrent(userSettings.MaxThreads) }
SettingsManual(h) ==
    /\ spc[h] = "manual"
    /\ IF ~userSettings.AutoDetectThreads
       THEN SetMaxConcurrent(userSettings.MaxThreads) /\ UNCHANGED <<convertVars, lockVars>>
       ELSE UNCHANGED settingsFrame
    /\ spc' = [spc EXCEPT ![h] = "auto"]
    /\ UNCHANGED <<userSettings, sreq, sresp>>

\* if userSettings.AutoDetectThreads { autoThreads := cpuCores * 2;
\* processQueue.SetMaxConcurrent(autoThreads); userSettings.MaxThreads = autoThreads }
SettingsAutoDetect(h) ==
    /\ spc[h] = "auto"
    /\ IF userSettings.AutoDetectThreads
       THEN /\ SetMaxConcurrent(cpuCores * 2)
            /\ userSettings' = [userSettings EXCEPT !.MaxThreads = cpuCores * 2]
            /\ UNCHANGED <<convertVars, lockVars>>
       ELSE /\ UNCHANGED userSettings
            /\ UNCHANGED settingsFrame
    /\ spc' = [spc EXCEPT ![h] = "respond"]
    /\ UNCHANGED <<sreq, sresp>>

\* queueStatus := processQueue.GetStatus(); jsonResponse(...)
SettingsRespond(h) ==
    /\ spc[h] = "respond"
    /\ sresp' = [sresp EXCEPT ![h] =
                    [maxThreads |-> userSettings.MaxThreads,
                     autoDetectThreads |-> userSettings.AutoDetectThreads,
                     currentMaxConcurrent |-> MaxConcurrent]]
    /\ spc' = [spc EXCEPT ![h] = "done"]
    /\ UNCHANGED <<userSettings, sreq>>
    /\ UNCHANGED settingsFrame

\* The bodies of the requests: each field absent or present, maxThreads in
\* range and above 32; and a maxThreads of zero.
SettingsBodies ==
    [MaxThreads : {<< >>, <<4>>, <<40>>}, AutoDetectThreads : {<< >>, <<TRUE>>, <<FALSE>>}]
        \cup {[MaxThreads |-> <<0>>, AutoDetectThreads |-> <<FALSE>>]}

\* The server right after main(), on a host of 1 or 17 cores, with up to
\* MaxSettingsRequests POST /settings requests, one after the other or
\* overlapping.
InitSettingsRequests ==
    /\ cpuCores \in CpuCoreCounts
    /\ requested = cpuCores * 2
    /\ MaxConcurrent = NewProcessQueue(requested)
    /\ InitRest
    /\ NoText
    /\ NoConcat
    /\ NoConvert
    /\ InitSettings
    /\ spc \in [Handlers -> {"none", "start"}]
    /\ spc[1] = "start"
    /\ sreq \in [Handlers -> SettingsBodies]
    /\ \A h \in Handlers : spc[h] = "none" => sreq[h] = NoSettingsBody
    /\ sresp = [h \in Handlers |-> NoSettingsResponse]
NextSettings ==
    \/ \E h \in Handlers : SettingsAuto(h)
    \/ \E h \in Handlers : SettingsMax(h)
    \/ \E h \in Handlers : SettingsManual(h)
    \/ \E h \in Handlers : SettingsAutoDetect(h)
    \/ \E h \in Handlers : SettingsRespond(h)
    \/ processQueue /\ UNCHANGED handlerVars
SpecSettings == InitSettingsRequests /\ [][NextSettings]_vars

\* ------------------------------------------------------ queue.go, pq.mu
\* The queue at the grain of its mutex.  A critical section is two steps:
\* pq.mu.Lock() succeeds, then the body runs and pq.mu.Unlock() releases it,
\* so that the states in which somebody holds the lock are visible.  What a
\* function does outside its critical section takes no lock.
Unlocked == << >>
Holder(f, k) == <<f, k>>

\* pq.mu.Lock() in function f (of goroutine, call or argument k)
Lock(f, k) ==
    /\ mu = Unlocked
    /\ mu' = Holder(f, k)
    /\ UNCHANGED <<cpuCores, queueVars, batchVars, workVars, pureVars>>
    /\ UNCHANGED <<convertVars, settingsVars, logged, status>>

lockFrame == <<convertVars, settingsVars, logged, status>>

\* SetMaxConcurrent (queue.go:55-71)
SetMaxConcurrentLock(max) == Lock("SetMaxConcurrent", max)
SetMaxConcurrentUnlock(max) ==
    /\ mu = Holder("SetMaxConcurrent", max)
    /\ SetMaxConcurrent(max)
    /\ mu' = Unlocked
    /\ UNCHANGED lockFrame

\* Add (queue.go:84-93)
AddLock(i) == caller[i] = "start" /\ Lock("Add", i)
AddUnlock(i) ==
    /\ mu = Holder("Add", i)
    /\ Add(i)
    /\ mu' = Unlocked
    /\ UNCHANGED lockFrame

\* processQueue (queue.go:101-102, 104-135 with the deferred Unlock)
processQueueLock == pqGoroutines > 0 /\ Lock("processQueue", 0)
processQueueUnlock ==
    /\ mu = Holder("processQueue", 0)
    /\ processQueue
    /\ mu' = Unlocked
    /\ UNCHANGED lockFrame

\* The goroutine of task t after it sent its result (queue.go:121-124):
\* pq.mu.Lock(); delete(pq.running, item.ID); pq.mu.Unlock().
GoroutineLock(t) == worker[t] = "sent" /\ Lock("goroutine", t)
GoroutineRemove(t) ==
    /\ mu = Holder("goroutine", t)
    /\ running' = running \ {item[t].ID}
    /\ worker' = [worker EXCEPT ![t] = "removed"]
    /\ raisePending' = -1
    /\ mu' = Unlocked
    /\ UNCHANGED <<cpuCores, MaxConcurrent, queue, pqGoroutines, requested, setCalls>>
    /\ UNCHANGED <<item, outcome, fs>>
    /\ UNCHANGED <<batchVars, pureVars, lockFrame>>

\* What a read of pq.MaxConcurrent without the lock can see: the value
\* stored, or, while SetMaxConcurrent is inside its critical section, the
\* value it is storing (its write at queue.go:66 may or may not have happened).
UnlockedReadOfMaxConcurrent ==
    {MaxConcurrent} \cup
        {ClampMax(max) : max \in {m \in CapRequests : mu = Holder("SetMaxConcurrent", m)}}

\* Then (queue.go:126-133) the log line, which reads pq.MaxConcurrent after
\* the Unlock, and go pq.processQueue().
GoroutineLog(t) ==
    /\ worker[t] = "removed"
    /\ \E v \in UnlockedReadOfMaxConcurrent : logged' = [logged EXCEPT ![t] = <<v>>]
    /\ pqGoroutines' = pqGoroutines + 1
    /\ worker' = [worker EXCEPT ![t] = "exited"]
    /\ item' = [item EXCEPT ![t] = NoItem]
    /\ UNCHANGED <<cpuCores, MaxConcurrent, running, queue, requested, setCalls, raisePending>>
    /\ UNCHANGED <<outcome, fs>>
    /\ UNCHANGED <<batchVars, pureVars, convertVars, settingsVars, mu, status>>

\* GetStatus (queue.go:138-148)
GetStatusLock == Lock("GetStatus", 0)
GetStatusUnlock ==
    /\ mu = Holder("GetStatus", 0)
    /\ status' = <<[MaxConcurrent |-> MaxConcurrent, Running |-> Cardinality(running),
                    Queued |-> Len(queue), CPUCores |-> cpuCores]>>
    /\ mu' = Unlocked
    /\ UNCHANGED <<cpuCores, queueVars, batchVars, workVars, pureVars>>
    /\ UNCHANGED <<convertVars, settingsVars, logged>>

\* One batch of up to MaxSentences sentences on a single-core host, while
\* POST /settings changes the capacity up to MaxSetCalls times and the
\* status is asked for at any time.
NextLock ==
    \/ \E max \in CapRequests : setCalls < MaxSetCalls /\ SetMaxConcurrentLock(max)
    \/ \E max \in CapRequests : SetMaxConcurrentUnlock(max)
    \/ \E n \in 1..MaxSentences : generateAudioParallelStart(n) /\ UNCHANGED handlerVars
    \/ \E i \in Sentences : AddLock(i)
    \/ \E i \in Sentences : AddUnlock(i)
    \/ processQueueLock
    \/ processQueueUnlock
    \/ \E t \in Sentences : TaskExecute(t) /\ UNCHANGED handlerVars
    \/ \E t \in Sentences : GoroutineLock(t)
    \/ \E t \in Sentences : GoroutineRemove(t)
    \/ \E t \in Sentences : GoroutineLog(t)
    \/ \E i \in Sentences : AddReturn(i) /\ UNCHANGED handlerVars
    \/ generateAudioParallelReturn /\ UNCHANGED handlerVars
    \/ GetStatusLock
    \/ GetStatusUnlock

SpecLock == InitFair /\ [][NextLock]_vars

\* --------------------------------------------------------------- claims
Succeeded(t) == outcome[t] # << >> /\ outcome[t][1].Error = NilError
Failed(t) == outcome[t] # << >> /\ outcome[t][1].Error # NilError
Batch == 1..numSentences

\* C1 (as claimed): in every reachable state the running set holds at most
\* MaxConcurrent IDs, also right after SetMaxConcurrent lowered the capacity.
C1_RunningWithinCapacity == Cardinality(running) <= MaxConcurrent

\* C1 (amended): the running set never grows beyond the capacity.  Every
\* step ends with at most MaxConcurrent running IDs, or it did not add to the
\* running set (the capacity was lowered under tasks that keep running).
C1_RunningNeverGrowsBeyondCapacity ==
    [][\/ Cardinality(running') <= MaxConcurrent'
       \/ Cardinality(running') <= Cardinality(running)]_vars

\* C1 witness: SetMaxConcurrent has lowered the capacity below the number
\* of running tasks while a dispatcher goroutine is still to run.
C1_LoweredBelowRunning ==
    /\ setCalls > 0
    /\ Cardinality(running) > MaxConcurrent
    /\ pqGoroutines > 0

\* C2: when generateAudioParallel succeeds, the list it returns has one
\* entry per sentence and entry i is the file that the task of sentence i
\* produced, whatever the order in which the tasks completed.
C2_OrderPreserved ==
    (gpc = "returned" /\ ret.err = NoError) =>
        /\ Len(ret.audioFiles) = numSentences
        /\ \A i \in Batch : Succeeded(i) /\ ret.audioFiles[i] = outcome[i][1].Data

\* C2 witness: a successful batch whose tasks completed in the reverse of
\* the sentence order (file names are numbered as they are made).
C2_ReturnedOutOfCompletionOrder ==
    /\ gpc = "returned"
    /\ ret.err = NoError
    /\ numSentences = MaxSentences
    /\ \A i \in Batch : ret.audioFiles[i] = numSentences + 1 - i

\* C3 (as claimed): when generateAudioParallel returns an error, no file
\* produced by a successful task of the batch exists any more.
C3_SiblingArtifactsDeleted ==
    (gpc = "returned" /\ ret.err # NoError) =>
        \A t \in Batch : Succeeded(t) => outcome[t][1].Data \notin fs

\* C4: generateAudioParallel never returns partial output.  If a task of
\* the batch failed it returns no file and an error; it returns files only
\* when every task succeeded; and the files of the sentences before the
\* failing one it reports are deleted.
C4_NoPartialOutput ==
    gpc = "returned" =>
        /\ (\E t \in Batch : Failed(t)) => (ret.audioFiles = << >> /\ ret.err # NoError)
        /\ ret.audioFiles # << >> => (\A t \in Batch : Succeeded(t))
        /\ ret.err # NoError =>
              /\ ret.err.sentence \in Batch
              /\ Failed(ret.err.sentence)
              /\ \A t \in 1..(ret.err.sentence - 1) :
                    Succeeded(t) /\ outcome[t][1].Data \notin fs

\* C4 witness: three tasks, the second failed and the others succeeded; the
\* call has returned the failure of sentence 2 and the first file is gone.
C4_SecondOfThreeFailed ==
    /\ gpc = "returned"
    /\ numSentences = 3
    /\ Succeeded(1) /\ Failed(2) /\ Succeeded(3)
    /\ ret.err = [sentence |-> 2, cause |-> PiperError]
    /\ ret.audioFiles = << >>
    /\ outcome[1][1].Data \notin fs

\* C5: after NewProcessQueue(n) and after every SetMaxConcurrent(m) the
\* capacity is in 1..32 and is the last requested value clamped to 1..32;
\* NewProcessQueue clamps every argument, also zero, negative and large ones.
C5_CapacityClamped ==
    /\ MaxConcurrent \in 1..32
    /\ MaxConcurrent = Min(32, Max(1, requested))
    /\ \A n \in CtorArgs : NewProcessQueue(n) = Min(32, Max(1, n))

\* C5 witness: the last SetMaxConcurrent call asked for 33 and the capacity
\* is 32.
C5_AskedAboveCeiling ==
    /\ setCalls = MaxSetCalls
    /\ requested = 33
    /\ MaxConcurrent = 32

\* C6: tasks leave the pending list in FIFO order.  In every step the tasks
\* that are started are exactly the first k items of pq.queue, and the items
\* behind them stay in the queue in their order (new items go to the tail):
\* an item appended earlier is never started later than one appended after it.
C6_FifoDispatch ==
    [][LET startedNow == {t \in Sentences : worker[t] = "none" /\ worker'[t] # "none"}
           k == Cardinality(startedNow)
       IN  /\ k <= Len(queue)
           /\ \A j \in 1..k : queue[j].Task \in startedNow
           /\ Len(queue') >= Len(queue) - k
           /\ \A j \in (k + 1)..Len(queue) : queue'[j - k] = queue[j]]_vars

\* C6 witness: the capacity is used up by the task appended first while the
\* tasks appended later wait in the queue.
C6_HeadRunsOthersWait ==
    /\ MaxConcurrent = 1
    /\ Len(queue) = numSentences - 1
    /\ numSentences = MaxSentences
    /\ \E t \in Sentences : worker[t] = "exec" /\ running = {item[t].ID}

\* C7: an Add call returns once, only after its own task has run, and with
\* the TaskResult of that task; while its task is pending or executing the
\* caller is still blocked, and a channel never holds more than one result.
C7_AddReturnsOwnResult ==
    \A i \in Sentences :
        /\ Len(resultChan[i]) <= 1
        /\ caller[i] = "done" =>
              /\ worker[i] \in {"sent", "exited"}
              /\ outcome[i] # << >>
              /\ addRet[i] = outcome[i]
              /\ resultChan[i] = << >>
        /\ caller[i] # "done" => addRet[i] = << >>

\* C7 witness: one Add call has returned the file its task made while the
\* caller of another is still blocked on its pending task.
C7_OneReturnedOneBlocked ==
    \E i, k \in Sentences :
        /\ caller[i] = "done" /\ addRet[i][1].Error = NilError
        /\ addRet[i][1].Data \in fs
        /\ caller[k] = "wait" /\ worker[k] = "none"

\* C9 (as claimed): a SetMaxConcurrent call creates the dispatch by itself,
\* and when the call raised the capacity above the running count over a
\* non-empty pending list, the next dispatch, with no submission or
\* completion in between, starts min(pending, new capacity - running) tasks.
C9_RaiseDispatchesPending ==
    [][LET startedNow == {t \in Sentences : worker[t] = "none" /\ worker'[t] # "none"}
       IN  /\ setCalls' = setCalls + 1 => pqGoroutines' = pqGoroutines + 1
           /\ (pqGoroutines' = pqGoroutines - 1 /\ raisePending >= 0)
              => Cardinality(startedNow) = raisePending]_vars

\* C10 (as claimed): with the capacity C the queue was built with, once all
\* tasks of the batch are submitted and no dispatch is outstanding, the
\* tasks that are started and not yet completed number min(C, unfinished)
\* and the rest of the unfinished tasks are pending: C run and N - C wait
\* before the first completion, and each completion lets one more start.
C10_SettlesAtCapacity ==
    (/\ setCalls = 0
     /\ gpc # "idle"
     /\ \A i \in Batch : caller[i] # "start"
     /\ pqGoroutines = 0)
    => LET inRun == {t \in Batch : worker[t] \in {"exec", "sent"}}
           unfinished == {t \in Batch : worker[t] # "exited"}
       IN  /\ Cardinality(inRun) = Min(MaxConcurrent, Cardinality(unfinished))
           /\ Len(queue) = Cardinality(unfinished) - Cardinality(inRun)

\* C8: under fair scheduling every submitted task is eventually started and
\* its Add call eventually returns, whether or not another Add or
\* SetMaxConcurrent call follows.
C8_EveryAddReturns ==
    \A i \in Sentences :
        (caller[i] = "wait") ~> (worker[i] # "none" /\ caller[i] = "done")

\* C8 witness: a batch on a capacity lowered to 1 has been worked off: every
\* Add call has returned.
C8_AllDoneAtCapacityOne ==
    /\ numSentences = MaxSentences
    /\ MaxConcurrent = 1
    /\ \A i \in Batch : caller[i] = "done"

\* C14 (as claimed): normalizeTextForTTS is idempotent: applied to its own
\* result it returns that result.
C14_NormalizeIdempotent == tpc = "renormalized" => renormalized = normalized

\* C15 (as claimed): splitSentences("Dr. Smith llegó. Se fue.") is the two
\* sentences "Dr. Smith llegó." and "Se fue."; and no sentence of a result
\* ends at the period of a listed abbreviation that the text holds before
\* the name " Smith" (whatever mark stands there in the result).
C15_AbbreviationProtected ==
    tpc = "split" =>
        /\ text = TextDrSmith =>
              sentences = <<SubSeq(TextDrSmith, 1, 16), SubSeq(TextDrSmith, 18, 24)>>
        /\ \A k \in 1..Len(abbreviations) :
              Contains(text, abbreviations[k] \o <<" ", "S", "m", "i", "t", "h">>) =>
                  \A j \in 1..Len(sentences) : \A mark \in {".", "?", "!"} :
                      ~HasSuffix(sentences[j],
                                 SubSeq(abbreviations[k], 1, Len(abbreviations[k]) - 1) \o <<mark>>)

\* C16 (as claimed): splitSentences("Hello world. This is great! Are you
\* sure?") is the three sentences "Hello world.", "This is great!" and
\* "¿Are you sure?".
C16_ThreeSentences ==
    (tpc = "split" /\ text = TextHelloWorld) =>
        sentences = <<SubSeq(TextHelloWorld, 1, 12), SubSeq(TextHelloWorld, 14, 27),
                      <<"¿">> \o SubSeq(TextHelloWorld, 29, 41)>>

\* C16 (amended): splitSentences("Hello world. This is great! Are you
\* sure?") is the one-element sequence "Hello world. This is great! ¿Are you
\* sure?": the three short sentences are merged, so one synthesis task is
\* submitted for it.
C16_OneMergedSentence ==
    (tpc = "split" /\ text = TextHelloWorld) =>
        /\ Len(sentences) = 1
        /\ sentences[1] = SubSeq(TextHelloWorld, 1, 28) \o <<"¿">>
                              \o SubSeq(TextHelloWorld, 29, 41)

\* C16 witness: splitSentences has been applied to that text, from which the
\* scan extracts three sentences.
C16_HelloWorldSplit ==
    /\ tpc = "split"
    /\ text = TextHelloWorld
    /\ Len(extracted(text)) = 3
    /\ sentences # << >>

\* the letters of a text and its words: the maximal runs of letters and digits
Letter == WordChar \cup {LowerSeq[i] : i \in 1..Len(LowerSeq)} \cup Upper
Words(t) ==
    Cardinality({i \in 1..Len(t) : t[i] \in Letter /\ (i = 1 \/ t[i - 1] \notin Letter)})
\* a sentence with fewer than 4 words and under 30 characters
ShortFragment(t) == Words(t) < 4 /\ Len(t) < 30

\* C17 (as claimed): mergeShortFragments emits no sentence of fewer than 4
\* words and under 30 characters that has a predecessor as an element of its
\* own: the sentence follows a space inside an output element; and when only
\* the last sentence of the input is such a fragment, and it has 2 words, the
\* output has one element fewer than the input and ends with the last two
\* input sentences joined by a space.
C17_ShortFragmentJoinsPredecessor ==
    tpc = "merged" =>
        LET n == Len(fragments)
        IN  /\ \A i \in 2..n :
                  ShortFragment(fragments[i]) =>
                      /\ \A j \in 1..Len(merged) : merged[j] # fragments[i]
                      /\ \E j \in 1..Len(merged) :
                            Contains(merged[j], <<" ">> \o fragments[i])
            /\ (/\ n >= 2
                /\ Words(fragments[n]) = 2 /\ Len(fragments[n]) < 30
                /\ \A i \in 1..(n - 1) : ~ShortFragment(fragments[i]))
               => /\ Len(merged) = n - 1
                  /\ merged[n - 1] = fragments[n - 1] \o <<" ">> \o fragments[n]
                  /\ \A i \in 1..(n - 2) : merged[i] = fragments[i]

\* the step in which concatenateAudioNative runs and returns
ConcatReturns == cpc = "ready" /\ cpc' = "returned"
\* every input file is a WAV file that readWAVFile reads
AllReadable == \A i \in 1..Len(concatFiles) : Readable(disk, concatFiles[i])
\* input i is readable and differs from the first input in format
Differs(i) ==
    /\ Readable(disk, concatFiles[1])
    /\ Readable(disk, concatFiles[i])
    /\ Header(disk[concatFiles[i]]) # Header(disk[concatFiles[1]])

RECURSIVE SamplesBefore(_)
SamplesBefore(i) ==
    IF i <= 1 THEN 0 ELSE SamplesBefore(i - 1) + Len(disk[concatFiles[i - 1]].Data)

\* C12: when all inputs share one format and concatenateAudioNative
\* succeeds, the written file holds the inputs' samples in list order,
\* as many samples as the inputs have together, under the first input's
\* sample rate, channel count and bit depth.
C12_SamplesAppendedInOrder ==
    [][(/\ ConcatReturns
        /\ AllReadable
        /\ \A i \in 2..Len(concatFiles) : ~Differs(i)
        /\ cerr' = NilError)
         => /\ output'.kind = "wav"
            /\ Len(output'.Data) = SamplesBefore(Len(concatFiles) + 1)
            /\ \A i \in 1..Len(concatFiles) :
                  SubSeq(output'.Data, SamplesBefore(i) + 1, SamplesBefore(i + 1))
                      = disk[concatFiles[i]].Data
            /\ Header(output') = Header(disk[concatFiles[1]])]_vars

\* three inputs of one format were concatenated
C12_ThreeConcatenated ==
    /\ cpc = "returned"
    /\ cerr = NilError
    /\ Len(concatFiles) = 3
    /\ output.kind = "wav"
    /\ output.Data = Samples(1) \o Samples(2) \o Samples(3)
    /\ Len(output.Data) = 6

\* C13: after concatenateAudioNative returns without error every input
\* file is removed and the output file exists; after it returns an error
\* (empty list, unreadable file, format mismatch, write error) every input
\* file is as it was.
C13_InputsDeletedIffSuccess ==
    [][ConcatReturns
         => /\ cerr' = NilError
                => /\ \A i \in 1..Len(concatFiles) : disk'[concatFiles[i]] = Missing
                   /\ output'.kind = "wav"
            /\ cerr' # NilError => disk' = disk]_vars

\* the write of the combined file failed and the three inputs are still there
C13_WriteFailedInputsKept ==
    /\ cpc = "returned"
    /\ cerr = WriteError
    /\ Len(concatFiles) = 3
    /\ \A f \in 1..3 : disk[f].kind = "wav"

\* the request has empty text, text longer than a positive MAX_TEXT, an
\* empty model path or a model path of no loaded model
InputError ==
    \/ request.Text = << >>
    \/ maxTextLength > 0 /\ ByteLen(request.Text) > maxTextLength
    \/ request.ModelPath = ""
    \/ \A i \in 1..Len(availableModels) : availableModels[i].OnnxPath # request.ModelPath
\* neither the queue nor the orchestrator nor a synthesis task takes a step:
\* nothing is submitted, Piper is not run, the queue state stays
NoWork == UNCHANGED <<queueVars, batchVars, workVars>>

\* C18: a /convert request with empty text, text longer than a positive
\* MAX_TEXT, an empty model path or an unknown model path is answered with
\* an error (status 400 or 404) and no step of its handling submits a task,
\* runs the synthesis or changes the queue state.
C18_InputErrorNoPartialWork ==
    [][InputError
         => /\ NoWork
            /\ hpc = "ready" => /\ hpc' = "responded"
                                /\ ~response'.success
                                /\ response'.status \in {400, 404}]_vars

\* a text above the MAX_TEXT ceiling, sent with the path of a loaded model,
\* was rejected while the queue is still idle
C18_TooLongRejected ==
    /\ hpc = "responded"
    /\ request.decodes
    /\ request.Text = TextHelloWorld
    /\ request.ModelPath = KnownModel
    /\ maxTextLength = 5
    /\ response = errorResponse("Text exceeds maximum length", 400)
    /\ gpc = "idle"
    /\ queue = << >>
    /\ running = {}

\* the request passes the checks and its text gives no sentence
ZeroSentences ==
    /\ request.decodes
    /\ ~InputError
    /\ The({processedText = << >> \/ Len(splitSentences(processedText)) = 0
              : processedText \in {filterTextSegment(request.Text, DefaultReplacements)}})

\* C19: when the text work of a /convert request gives zero sentences the
\* handler answers with a failure and no task is submitted, and
\* generateAudioParallel only ever runs on at least one sentence.
C19_NoSynthesisOnEmptyList ==
    [][/\ ZeroSentences
          => /\ NoWork
             /\ hpc = "ready" => /\ hpc' = "responded"
                                 /\ ~response'.success
                                 /\ response'.status = 400
       /\ gpc' # "idle" => numSentences' >= 1 /\ numSentences' = Len(validSentences')]_vars

\* the text "ab" passed the checks, gave no sentence and was answered with
\* the failure, the queue idle
C19_NoSentencesRejected ==
    /\ hpc = "responded"
    /\ request = [decodes |-> TRUE, Text |-> TextAb, ModelPath |-> KnownModel]
    /\ response = errorResponse("No valid sentences found in text", 400)
    /\ gpc = "idle"
    /\ queue = << >>

\* request h completes: its handler writes the response
Completes(h) == spc[h] = "respond" /\ spc'[h] = "done"

\* C20: when a POST /settings request completes, the queue capacity is
\* twice the CPU core count if auto-detect is enabled, and the supplied
\* positive maxThreads clamped to 1..32 if auto-detect is disabled.
C20_SettingsDecideCapacity ==
    [][\A h \in Handlers :
         Completes(h)
           => /\ userSettings'.AutoDetectThreads => MaxConcurrent' = cpuCores * 2
              /\ (~userSettings'.AutoDetectThreads /\ HasMaxThreads(sreq[h]))
                   => MaxConcurrent' = ClampThreads(sreq[h].MaxThreads[1])]_vars

\* C21: a batch of N sentences submits exactly N tasks, one per sentence, and
\* the synthesis is invoked exactly once per sentence: an item for sentence i
\* is appended only by the one Add of its goroutine, a task is started once
\* and its outcome is written once, also when it failed, and when
\* generateAudioParallel returns every sentence of the batch has its outcome
\* and no other sentence has one.
TasksFor(q, i) == Cardinality({k \in 1..Len(q) : q[k].Task = i})
C21_OneTaskOneSynthesisPerSentence ==
    [][\A i \in Sentences :
          /\ TasksFor(queue', i) > TasksFor(queue, i) =>
                /\ i \in Batch
                /\ caller[i] = "start" /\ caller'[i] = "wait"
                /\ TasksFor(queue, i) = 0 /\ worker[i] = "none" /\ outcome[i] = << >>
          /\ caller'[i] = "start" => caller[i] = "start" \/ gpc = "idle"
          /\ worker'[i] = "exec" => worker[i] \in {"none", "exec"}
          /\ outcome'[i] # outcome[i] =>
                outcome[i] = << >> /\ worker[i] = "exec" /\ worker'[i] = "sent"
          /\ (gpc # "returned" /\ gpc' = "returned") =>
                (i \in Batch <=> outcome'[i] # << >>)]_vars
\* A batch of three returned in which the second sentence failed.
C21_FailedOnceNotRetried ==
    /\ gpc = "returned" /\ numSentences = 3
    /\ Failed(2) /\ Succeeded(1) /\ Succeeded(3)
    /\ \A i \in Batch : worker[i] = "exited" /\ TasksFor(queue, i) = 0

\* C22 (as claimed): a finished task is removed from the running set before
\* its result is delivered, so whenever the result of task t is on its
\* channel, or the Add call for t has returned, the ID of t is no longer in
\* the running set that GetStatus counts.
Delivered(t) == resultChan[t] # << >> \/ caller[t] = "done"
CountedRunning(t) == worker[t] \in {"exec", "sent"} /\ item[t].ID \in running
C22_RemovedBeforeDelivered ==
    \A t \in Sentences : Delivered(t) => ~CountedRunning(t)

\* C23: SetMaxConcurrent never aborts or removes work.  A call leaves the
\* running set, the pending list, the goroutines under way and the results
\* already sent unchanged; every task under way still delivers its result;
\* and processQueue starts a pending item only while the running count,
\* counted as its loop counts it, is below the capacity then in force.
SetCall == setCalls' # setCalls
StartedNow(t) == worker[t] = "none" /\ worker'[t] = "exec"
PlaceInQueue(t) == CHOOSE k \in 1..Len(queue) : queue[k].Task = t
RunningBefore(k) == running \cup {queue[j].ID : j \in 1..(k - 1)}
C23_LoweringOnlyThrottles ==
    /\ [][/\ SetCall =>
                /\ running' = running /\ queue' = queue
                /\ worker' = worker /\ item' = item
                /\ resultChan' = resultChan /\ outcome' = outcome
          /\ \A t \in Sentences :
                StartedNow(t) =>
                   /\ TasksFor(queue, t) = 1
                   /\ Cardinality(RunningBefore(PlaceInQueue(t))) < MaxConcurrent]_vars
    /\ \A t \in Sentences : (worker[t] = "exec") ~> (worker[t] = "exited" /\ caller[t] = "done")
\* The capacity was lowered to 1 while two tasks run and a third waits.
C23_LoweredWhileTwoRunOneWaits ==
    /\ setCalls = 1 /\ MaxConcurrent = 1
    /\ Cardinality(running) = 2
    /\ worker[1] = "exec" /\ worker[2] = "exec"
    /\ Len(queue) = 1 /\ pqGoroutines > 0

\* C24 (as claimed): pq.mu is never held while a task's work executes, so
\* while tasks execute the lock is free or about to be released by a holder
\* that waits for nothing; and every read or write of pq.queue, pq.running
\* and pq.MaxConcurrent is made by the holder of pq.mu.
Executing == {t \in Sentences : worker[t] = "exec"}
NotHeldAcrossWork == \A t \in Executing : mu # Holder("goroutine", t)
WritesUnderLock ==
    (queue' # queue \/ running' # running \/ MaxConcurrent' # MaxConcurrent)
        => mu # Unlocked /\ mu' = Unlocked
StatusReadUnderLock == status' # status => mu = Holder("GetStatus", 0)
LogReadUnderLock == \A t \in Sentences : logged'[t] # logged[t] => mu = Holder("goroutine", t)
C24_EveryAccessUnderLock ==
    /\ []NotHeldAcrossWork
    /\ [][WritesUnderLock /\ StatusReadUnderLock /\ LogReadUnderLock]_vars

\* C25: generateAudioParallel is a barrier over its batch.  Once it has
\* returned, with files or with an error, every task of the batch has run its
\* work and its Add call has returned the result: none is pending in
\* pq.queue, none is executing, none is undelivered.
WorkOver(t) ==
    /\ outcome[t] # << >>
    /\ worker[t] \in {"sent", "exited"}
    /\ TasksFor(queue, t) = 0
ResultDelivered(t) ==
    /\ caller[t] = "done"
    /\ resultChan[t] = << >>
    /\ addRet[t] = outcome[t]
C25_ReturnsAfterEveryTask ==
    gpc = "returned" => wg = 0 /\ \A t \in Batch : WorkOver(t) /\ ResultDelivered(t)
\* The first of three sentences failed and the call returned its error while
\* the goroutine of the last task has not yet left the running set.
C25_FirstFailedAllFinished ==
    /\ gpc = "returned" /\ numSentences = 3
    /\ Failed(1) /\ ret.err.sentence = 1
    /\ Succeeded(2) /\ Succeeded(3)
    /\ worker[3] = "sent"

\* C26 (as claimed): when the first input sentence of mergeShortFragments
\* has fewer than 4 words and under 30 characters, so that no output element
\* precedes it, and a sentence follows, the first output element begins with
\* "first second", the second sentence is not emitted again (the output,
\* joined by spaces, is the input joined by spaces, in one element fewer at
\* least); when it is the only input, the output is that one sentence.
RECURSIVE JoinBySpace(_)
JoinBySpace(list) ==
    IF list = << >> THEN << >>
    ELSE IF Len(list) = 1 THEN list[1]
    ELSE list[1] \o <<" ">> \o JoinBySpace(Tail(list))
C26_OrphanJoinsNext ==
    (tpc = "merged" /\ ShortFragment(fragments[1])) =>
        IF Len(fragments) = 1
        THEN merged = fragments
        ELSE /\ HasPrefix(merged[1], fragments[1] \o <<" ">> \o fragments[2])
             /\ Len(merged) < Len(fragments)
             /\ JoinBySpace(merged) = JoinBySpace(fragments)

\* C27 (as claimed): every chunk splitLongSentence returns for a sentence of
\* more than 400 characters has at most 200 characters, with or without a
\* clause break in the sentence and however long the stretch between two
\* clause breaks is.
C27_ChunksAtMost200 ==
    tpc = "chunked" => \A k \in 1..Len(sentences) : Len(sentences[k]) <= 200

\* C28: when generateAudioParallel has returned and tasks of the batch
\* failed, the error it returned is that of the failed sentence with the
\* lowest index, whichever task failed first in time; the error is a function
\* of the outcomes of the sentences alone (and nil when none failed).
FailedSentences == {t \in Batch : Failed(t)}
ErrorOfOutcomes ==
    IF FailedSentences = {} THEN NoError
    ELSE LET first == CHOOSE t \in FailedSentences : \A u \in FailedSentences : t <= u
         IN  [sentence |-> first, cause |-> outcome[first][1].Error]
C28_ErrorOfLowestFailedIndex ==
    gpc = "returned" => ret.err = ErrorOfOutcomes
\* The first and the third of three sentences failed; the goroutine of the
\* third task has exited, that of the first has not yet left the running
\* set, and the error returned is that of the first sentence.
C28_FirstAndThirdFailed ==
    /\ gpc = "returned" /\ numSentences = 3
    /\ FailedSentences = {1, 3}
    /\ worker[3] = "exited" /\ worker[1] = "sent"
    /\ ret.err.sentence = 1

\* C29 (as claimed): whenever no POST /settings request is in progress, the
\* maxThreads the settings report, userSettings.MaxThreads, is the capacity
\* of the queue, from start-up on and on a host of any core count.
InProgress(h) == spc[h] \notin {"none", "done"}
C29_ReportedThreadsAreCapacity ==
    (\A h \in Handlers : ~InProgress(h)) => userSettings.MaxThreads = MaxConcurrent

\* C30 (as claimed): each task submitted with Add is pending, then running,
\* then done, once and in that order.  A pending task is not in the running
\* set; a task whose goroutine has not yet deleted it is in the running set;
\* a task leaves "pending" only to be started, is started once and is done
\* only after it ran; and when every submitted task is done, pq.queue and
\* pq.running are empty.
Pending(t) == TasksFor(queue, t) > 0
PendingID(t) == queue[CHOOSE k \in 1..Len(queue) : queue[k].Task = t].ID
Started(t) == worker[t] \in {"exec", "sent"}
Done(t) == worker[t] = "exited"
Submitted == {t \in Sentences : caller[t] \in {"wait", "done"}}
TaskStates ==
    \A t \in Sentences :
        /\ Pending(t) => TasksFor(queue, t) = 1 /\ worker[t] = "none" /\ PendingID(t) \notin running
        /\ Started(t) => ~Pending(t) /\ item[t].ID \in running
        /\ Done(t) => ~Pending(t)
AllDone == Submitted # {} /\ \A t \in Submitted : Done(t)
TaskSteps ==
    \A t \in Sentences :
        /\ (Pending(t) /\ ~Pending(t)') => worker'[t] = "exec"
        /\ (worker'[t] = "exec" /\ worker[t] # "exec") => Pending(t) /\ worker[t] = "none"
        /\ (Done(t)' /\ ~Done(t)) => worker[t] = "sent" /\ outcome[t] # << >>
        /\ Done(t) => Done(t)'
C30_PendingRunningDoneOnce ==
    /\ [](TaskStates /\ (AllDone => queue = << >> /\ running = {}))
    /\ [][TaskSteps]_vars

=============================================================================
